---- MODULE Spec2Model ----
(***************************************************************************)
(* A model of the decision cycle of the AI trading agent:                  *)
(*   decision/engine.py     parsing result validation (_validate_decision) *)
(*   trader/auto_trader.py  AutoTrader._run_cycle and the _execute_* paths *)
(*   logger/decision_logger.py  DecisionLogger.log_decision                *)
(*                                                                         *)
(* Prices, sizes, equity and leverage are integers.  The validator's       *)
(* float expressions are rendered in exact arithmetic, each comparison     *)
(* multiplied out so that no division is left.                             *)
(***************************************************************************)
EXTENDS Integers, Sequences, FiniteSets, TLC

(***************************************************************************)
(* Bounds of the model.                                                    *)
(***************************************************************************)
\* longest decision batch the AI response carries
MaxBatch == 2
\* number of cycles one run of the agent loop is followed for
MaxCycles == 3
\* number of threads that TraderManager.start_all has started for one agent
MaxThreads == 2

VARIABLES
    \* ---- one function applied to drawn arguments (SpecValidate, SpecFetch) ----
    v_pc,        \* "input": arguments drawn; "done": _validate_decisions applied;
                 \* "fetch_input", "fetched": the same for
                 \* _fetch_market_data_for_context; "call_input", "calling",
                 \* "returned", "raised": call_with_messages, one step per
                 \* attempt
    v_in,        \* the arguments
    v_out,       \* the result
    \* ---- one agent and its exchange account (Spec) ----
    pc,          \* "idle": between cycles; "recorded": _run_cycle has
                 \* ended
    now,         \* time.time(), in scan intervals
    stop_until,  \* AutoTrader.stop_until
    call_count,  \* AutoTrader.call_count
    positions,   \* open positions of the exchange account: {<<symbol, side>>}
    ctx,         \* the cycle's Context: candidate_coins, positions, equity,
                 \* market_data_map (its symbols)
    market,      \* what get_market_data answers during this cycle, per symbol
    ai_response, \* what the AI call of this cycle produced
    todo,        \* sorted_decisions not yet executed
    record,      \* the cycle's DecisionRecord
    calls,       \* trader calls of this cycle, in call order
    log,         \* lines of decisions.jsonl
    stats_total_decisions,  \* DecisionLogger.stats["total_decisions"]
    last_write_ok,          \* whether the cycle's write to decisions.jsonl succeeded
    \* ---- the threads of one agent and the main thread (SpecLoop) ----
    is_running,  \* AutoTrader.is_running
    thread_pc,   \* per thread, where it is in run_trader / AutoTrader.run:
                 \* "unstarted", "entered" (run() called), "cycle" (inside
                 \* _run_cycle, no order sequence begun), "ordering" (inside
                 \* _run_cycle, the open order placed, its stop-loss and
                 \* take-profit not yet), "after_cycle" (at the while test),
                 \* "sleeping", "returned", "raised" (run() left by an exception)
    last_cycle,  \* per thread, how its last finished cycle ended: "none" while
                 \* none has, "ok", "failed" (it raised)
    main_pc      \* main thread: "serving", "handling" (signal_handler has
                 \* called stop_all), "exited" (sys.exit: the process is gone)

v_vars == <<v_pc, v_in, v_out>>

c_vars == <<pc, now, stop_until, call_count, positions, ctx, market, ai_response,
            todo, record, calls, log, stats_total_decisions, last_write_ok>>

l_vars == <<is_running, thread_pc, last_cycle, main_pc>>

vars == <<v_vars, c_vars, l_vars>>

(***************************************************************************)
(* Decision (engine.py 85-96).  confidence, risk_usd and reasoning are     *)
(* read by neither the validator nor the executor and are left out.        *)
(***************************************************************************)
Decision(symbol, action, leverage, position_size_usd, stop_loss, take_profit) ==
    [symbol |-> symbol, action |-> action, leverage |-> leverage,
     position_size_usd |-> position_size_usd,
     stop_loss |-> stop_loss, take_profit |-> take_profit]

valid_actions ==
    {"open_long", "open_short", "close_long", "close_short", "hold", "wait"}

open_actions == {"open_long", "open_short"}

is_btc_eth(d) == d.symbol \in {"BTCUSDT", "ETHUSDT"}

\* max_leverage of _validate_decision: the cap of the symbol's class
max_leverage(d, btc_eth_leverage, altcoin_leverage) ==
    IF is_btc_eth(d) THEN btc_eth_leverage ELSE altcoin_leverage

\* d.position_size_usd > max_position_value + max_position_value * 0.01,
\* max_position_value = equity * 10 (BTC/ETH) or equity * 1.5 (others):
\*   size > equity * 10.1    <=>  size * 100 > equity * 1010
\*   size > equity * 1.515   <=>  size * 200 > equity * 303
exceeds_position_cap(d, account_equity) ==
    IF is_btc_eth(d)
    THEN d.position_size_usd * 100 > account_equity * 1010
    ELSE d.position_size_usd * 200 > account_equity * 303

\* risk_reward_ratio < 3.0, the ratio staying 0.0 unless risk_percent > 0.
\* entry_price5 is entry_price * 5, entry_price being
\* stop_loss + (take_profit - stop_loss) * 0.2 for a long and
\* stop_loss - (stop_loss - take_profit) * 0.2 for a short; risk5 and
\* reward5 are the numerators of risk_percent and reward_percent over the
\* common positive factor 100 / (5 * entry_price).
risk_reward_below_3(d) ==
    LET entry_price5 == IF d.action = "open_long"
                        THEN 5 * d.stop_loss + (d.take_profit - d.stop_loss)
                        ELSE 5 * d.stop_loss - (d.stop_loss - d.take_profit)
        risk5 == IF d.action = "open_long"
                 THEN entry_price5 - 5 * d.stop_loss
                 ELSE 5 * d.stop_loss - entry_price5
        reward5 == IF d.action = "open_long"
                   THEN 5 * d.take_profit - entry_price5
                   ELSE entry_price5 - 5 * d.take_profit
    IN  IF risk5 > 0 THEN reward5 < 3 * risk5 ELSE TRUE

direction_wrong(d) ==
    IF d.action = "open_long"
    THEN d.stop_loss >= d.take_profit
    ELSE d.stop_loss <= d.take_profit

(***************************************************************************)
(* _validate_decision: "ok", or the rule whose raise ends the function.    *)
(***************************************************************************)
validate_decision_no_leverage_cap(d, account_equity, btc_eth_leverage, altcoin_leverage) ==
    IF d.action \notin valid_actions THEN "invalid_action"
    ELSE IF d.action \notin open_actions THEN "ok"
    ELSE IF d.leverage <= 0 THEN "leverage"
    ELSE IF d.position_size_usd <= 0 THEN "size_nonpositive"
    ELSE IF exceeds_position_cap(d, account_equity) THEN "size_cap"
    ELSE IF d.stop_loss <= 0 \/ d.take_profit <= 0 THEN "stop_target_nonpositive"
    ELSE IF direction_wrong(d) THEN "direction"
    ELSE IF risk_reward_below_3(d) THEN "reward_risk"
    ELSE "ok"

validate_decision_no_size_tolerance(d, account_equity, btc_eth_leverage, altcoin_leverage) ==
    IF d.action \notin valid_actions THEN "invalid_action"
    ELSE IF d.action \notin open_actions THEN "ok"
    ELSE IF d.leverage <= 0
            \/ d.leverage > max_leverage(d, btc_eth_leverage, altcoin_leverage)
         THEN "leverage"
    ELSE IF d.position_size_usd <= 0 THEN "size_nonpositive"
    ELSE IF (IF is_btc_eth(d)
             THEN d.position_size_usd > account_equity * 10
             ELSE d.position_size_usd * 2 > account_equity * 3)
         THEN "size_cap"
    ELSE IF d.stop_loss <= 0 \/ d.take_profit <= 0 THEN "stop_target_nonpositive"
    ELSE IF direction_wrong(d) THEN "direction"
    ELSE IF risk_reward_below_3(d) THEN "reward_risk"
    ELSE "ok"

validate_decision(d, account_equity, btc_eth_leverage, altcoin_leverage) ==
    IF d.action \notin valid_actions THEN "invalid_action"
    ELSE IF d.action \notin open_actions THEN "ok"
    ELSE IF d.leverage <= 0
            \/ d.leverage > max_leverage(d, btc_eth_leverage, altcoin_leverage)
         THEN "leverage"
    ELSE IF d.position_size_usd <= 0 THEN "size_nonpositive"
    ELSE IF exceeds_position_cap(d, account_equity) THEN "size_cap"
    ELSE IF d.stop_loss <= 0 \/ d.take_profit <= 0 THEN "stop_target_nonpositive"
    ELSE IF direction_wrong(d) THEN "direction"
    ELSE IF risk_reward_below_3(d) THEN "reward_risk"
    ELSE "ok"

(***************************************************************************)
(* _validate_decisions: the loop over the batch; the first raise leaves    *)
(* it.  index is the 1-based place of the decision that raised, 0 when     *)
(* the loop ran to its end.                                                *)
(***************************************************************************)
RECURSIVE validate_from(_, _, _, _, _)
validate_from(i, decisions, account_equity, btc_eth_leverage, altcoin_leverage) ==
    IF i > Len(decisions) THEN [ok |-> TRUE, index |-> 0, error |-> "ok"]
    ELSE LET e == validate_decision(decisions[i], account_equity,
                                    btc_eth_leverage, altcoin_leverage)
         IN  IF e # "ok" THEN [ok |-> FALSE, index |-> i, error |-> e]
             ELSE validate_from(i + 1, decisions, account_equity,
                                btc_eth_leverage, altcoin_leverage)

RECURSIVE validate_last_error_from(_, _, _, _, _, _)
validate_last_error_from(i, acc, decisions, account_equity, btc_eth_leverage, altcoin_leverage) ==
    IF i > Len(decisions) THEN acc
    ELSE LET e == validate_decision(decisions[i], account_equity,
                                    btc_eth_leverage, altcoin_leverage)
         IN  validate_last_error_from(i + 1,
                 IF e # "ok" THEN [ok |-> FALSE, index |-> i, error |-> e] ELSE acc,
                 decisions, account_equity, btc_eth_leverage, altcoin_leverage)

\* a validator that examines every decision and keeps the last error
validate_decisions_keep_going(decisions, account_equity, btc_eth_leverage, altcoin_leverage) ==
    validate_last_error_from(1, [ok |-> TRUE, index |-> 0, error |-> "ok"],
        decisions, account_equity, btc_eth_leverage, altcoin_leverage)

validate_decisions(decisions, account_equity, btc_eth_leverage, altcoin_leverage) ==
    validate_from(1, decisions, account_equity, btc_eth_leverage, altcoin_leverage)

(***************************************************************************)
(* AutoTraderConfig defaults (auto_trader.py 76-77).                       *)
(***************************************************************************)
config_btc_eth_leverage == 5
config_altcoin_leverage == 5

(***************************************************************************)
(* _sort_decisions_by_priority: Python's sorted() is stable, so the result *)
(* is the closes, then the opens, then hold/wait, then anything else, each *)
(* group in input order.                                                   *)
(***************************************************************************)
get_action_priority(action) ==
    CASE action \in {"close_long", "close_short"} -> 1
      [] action \in {"open_long", "open_short"} -> 2
      [] action \in {"hold", "wait"} -> 3
      [] OTHER -> 999

sort_decisions_unsorted(decisions) == decisions

\* a sort that orders by priority and turns round the decisions that tie
sort_decisions_ties_reversed(decisions) ==
    LET with_priority(p) ==
            SelectSeq(decisions, LAMBDA d : get_action_priority(d.action) = p)
        reversed(s) == [i \in 1..Len(s) |-> s[Len(s) + 1 - i]]
    IN  reversed(with_priority(1)) \o reversed(with_priority(2))
        \o reversed(with_priority(3)) \o reversed(with_priority(999))

sort_decisions_by_priority(decisions) ==
    LET with_priority(p) ==
            SelectSeq(decisions, LAMBDA d : get_action_priority(d.action) = p)
    IN  IF Len(decisions) <= 1 THEN decisions
        ELSE with_priority(1) \o with_priority(2)
             \o with_priority(3) \o with_priority(999)

(***************************************************************************)
(* _fetch_market_data_for_context (engine.py 127-173).  What                *)
(* market.data.get gives for a symbol is either an exception (fetched      *)
(* FALSE) or a MarketData, of which the filter reads open_interest (None   *)
(* or an OIData with its latest value) and current_price.  Open interest   *)
(* and price are integers, so that latest * current_price / 1_000_000 < 15 *)
(* is latest * current_price < 15000000.                                   *)
(***************************************************************************)
MarketData(fetched, has_open_interest, oi_latest, current_price) ==
    [fetched |-> fetched, has_open_interest |-> has_open_interest,
     oi_latest |-> oi_latest, current_price |-> current_price]

\* the branch that ends in "continue" (158-167)
skipped_by_liquidity_filter(symbol, data, position_symbols) ==
    /\ symbol \notin position_symbols
    /\ data.has_open_interest
    /\ data.current_price > 0
    /\ data.oi_latest * data.current_price < 15000000

\* the keys of ctx.market_data_map afterwards.  symbol_set holds the symbols
\* for which data is fetched: those of the positions and all the candidates
\* (_calculate_max_candidates is len(candidate_coins)).  answers[s] is what
\* market.data.get(s) gives for the symbol (fetched: it returns rather than
\* raises).  The call at 153 passes two arguments, the symbol and
\* ctx.short_interval, to get_market_data, which is market.data.get
\* (engine.py 13) with its one parameter (market/data.py 234): Python raises
\* TypeError for an argument too many before the function runs, and the
\* except clause (170-173) passes over the symbol.
fetch_market_data_for_context(position_symbols, candidate_symbols, answers) ==
    LET symbol_set == position_symbols \cup candidate_symbols
        get_parameters == <<"symbol">>
        call_arguments == <<"symbol", "ctx.short_interval">>
        call_returns(s) ==
            Len(call_arguments) = Len(get_parameters) /\ answers[s].fetched
    IN  { s \in symbol_set :
            /\ call_returns(s)
            /\ ~skipped_by_liquidity_filter(s, answers[s], position_symbols) }

(***************************************************************************)
(* get_full_decision, as far as the cycle depends on it: the AI call       *)
(* (call_with_messages), _extract_decisions and _validate_decisions, any   *)
(* of which may raise.  resp is what the AI call produced: kind            *)
(* "call_failed" (call_with_messages raised), "malformed" (no JSON array   *)
(* could be extracted) or "batch" with the parsed decisions.               *)
(***************************************************************************)
get_full_decision(resp, account_equity) ==
    IF resp.kind = "call_failed"
    THEN [failed |-> TRUE, error |-> "call_failed", decisions |-> <<>>]
    ELSE IF resp.kind = "malformed"
    THEN [failed |-> TRUE, error |-> "malformed", decisions |-> <<>>]
    ELSE LET v == validate_decisions(resp.decisions, account_equity,
                      config_btc_eth_leverage, config_altcoin_leverage)
         IN  [failed |-> ~v.ok, error |-> v.error, decisions |-> resp.decisions]

\* a cycle that also executes the decisions of a rejected batch that pass
\* validation on their own
decisions_to_execute_valid_ones(fd, account_equity) ==
    sort_decisions_by_priority(
        SelectSeq(fd.decisions,
                  LAMBDA d : validate_decision(d, account_equity,
                                 config_btc_eth_leverage,
                                 config_altcoin_leverage) = "ok"))

\* _run_cycle 274-301 and 329: the except branch records the failure and
\* raises, so nothing of a failed get_full_decision is executed; otherwise
\* the decisions are executed in sorted order.
decisions_to_execute(fd, account_equity) ==
    IF fd.failed THEN <<>> ELSE sort_decisions_by_priority(fd.decisions)

(***************************************************************************)
(* Execution of one decision.  env is what the outside world does during   *)
(* it: whether get_positions, get_market_data and the order call succeed.  *)
(* A failing stop-loss or take-profit placement is logged and swallowed    *)
(* (658-665), so it changes nothing that is recorded here.  exch is the    *)
(* exchange account's positions when the decision starts.  The result      *)
(* gives the error raised ("" for none), the trader calls made and the     *)
(* positions afterwards.                                                   *)
(***************************************************************************)
Call(op, symbol) == [op |-> op, symbol |-> symbol]

Outcome(error, made, exch) == [error |-> error, calls |-> made, positions |-> exch]

\* a same-symbol match that forgets the side
has_same_side_position_any_side(reported, symbol, side) ==
    \E p \in reported : p[1] = symbol

\* the loop over trader.get_positions() before an open (627-630, 675-678)
has_same_side_position(reported, symbol, side) ==
    \E p \in reported : p[1] = symbol /\ p[2] = side

execute_open_with_record(d, side, env, exch) ==
    LET c1 == <<Call("get_positions", "")>>
        c2 == Append(c1, Call(d.action, d.symbol))
        c3 == c2 \o <<Call("set_stop_loss", d.symbol), Call("set_take_profit", d.symbol)>>
    IN  IF ~env.positions_ok THEN Outcome("get_positions_failed", c1, exch)
        ELSE IF has_same_side_position(exch, d.symbol, side)
             THEN Outcome("already_open", c1, exch)
        ELSE IF ~env.market_ok THEN Outcome("market_data_failed", c1, exch)
        ELSE IF ~env.order_ok THEN Outcome("order_failed", c2, exch)
        ELSE Outcome("", c3, exch \cup {<<d.symbol, side>>})

\* trader.close_long / close_short called with quantity 0: the adapter
\* looks the position up and raises when there is none
execute_close_with_record(d, side, env, exch) ==
    LET c1 == <<Call("get_positions", "")>>
        c2 == Append(c1, Call(d.action, d.symbol))
    IN  IF ~env.market_ok THEN Outcome("market_data_failed", <<>>, exch)
        ELSE IF ~env.positions_ok THEN Outcome("get_positions_failed", c1, exch)
        ELSE IF <<d.symbol, side>> \notin exch THEN Outcome("no_position", c2, exch)
        ELSE IF ~env.order_ok THEN Outcome("order_failed", c2, exch)
        ELSE Outcome("", c2, exch \ {<<d.symbol, side>>})

\* the dispatch of _execute_decision_with_record (600-617) to
\* _execute_open_long/open_short/close_long/close_short_with_record
execute_decision_with_record(d, env, exch) ==
    IF d.action = "open_long" THEN execute_open_with_record(d, "long", env, exch)
    ELSE IF d.action = "open_short" THEN execute_open_with_record(d, "short", env, exch)
    ELSE IF d.action = "close_long" THEN execute_close_with_record(d, "long", env, exch)
    ELSE IF d.action = "close_short" THEN execute_close_with_record(d, "short", env, exch)
    ELSE IF d.action \in {"hold", "wait"} THEN Outcome("", <<>>, exch)
    ELSE Outcome("unknown_action", <<>>, exch)

is_candidate_always(candidate_coins, symbol) == TRUE

\* any(coin.symbol == d.symbol for coin in ctx.candidate_coins)
is_candidate(candidate_coins, symbol) == symbol \in candidate_coins

\* action_record as appended to record.decisions (338-346, 357, 363, 366)
action_record(d, out) ==
    [action |-> d.action, symbol |-> d.symbol,
     success |-> (out.error = ""), error |-> out.error]

\* a loop that gives up at the first decision that raised
remaining_after_abort(rest, out) == IF out.error = "" THEN Tail(rest) ELSE <<>>

\* the for loop goes on to the next decision whatever the outcome
remaining_after(rest, out) == Tail(rest)

(***************************************************************************)
(* DecisionLogger.log_decision: the statistics are counted first, then the *)
(* record is appended to decisions.jsonl; a failing write is logged and    *)
(* swallowed.  A line keeps the cycle number and the success flag.         *)
(***************************************************************************)
log_decision(lines, rec, total, write_ok) ==
    IF write_ok
    THEN Append(lines, [cycle_number |-> total + 1, success |-> rec.success])
    ELSE lines

(***************************************************************************)
(* Inputs of the cycle.                                                    *)
(***************************************************************************)
RECURSIVE SeqsUpTo(_, _)
SeqsUpTo(S, n) ==
    IF n = 0 THEN {<<>>}
    ELSE LET shorter == SeqsUpTo(S, n - 1)
         IN  shorter \cup { Append(q, x) : q \in {r \in shorter : Len(r) = n - 1}, x \in S }

\* What the AI call of a cycle may produce: a failed call, a text without
\* a JSON array, or a batch.  A decision of a batch is an open that passes
\* validation, one that does not (leverage 0), a close, hold, wait or an
\* action outside the vocabulary; one batch has three decisions, an open,
\* a close and a hold, in that order.
AIResponses ==
    LET CycleDecisions ==
            { Decision("SOLUSDT", "open_long", l, 100, 90, 120) : l \in {0, 3} }
            \cup { Decision("SOLUSDT", "open_short", 3, 100, 120, 90),
                   Decision("BTCUSDT", "open_long", 3, 100, 90, 120),
                   Decision("SOLUSDT", "close_long", 0, 0, 0, 0),
                   Decision("SOLUSDT", "close_short", 0, 0, 0, 0),
                   Decision("SOLUSDT", "hold", 0, 0, 0, 0),
                   Decision("BTCUSDT", "wait", 0, 0, 0, 0),
                   Decision("BTCUSDT", "bogus", 0, 0, 0, 0) }
        CycleBatches ==
            {<<>>} \cup { <<a>> : a \in CycleDecisions }
            \cup { <<a, b>> : a \in CycleDecisions, b \in CycleDecisions }
            \cup { << Decision("BTCUSDT", "open_long", 3, 100, 90, 120),
                       Decision("ETHUSDT", "close_short", 0, 0, 0, 0),
                       Decision("SOLUSDT", "hold", 0, 0, 0, 0) >> }
    IN  { [kind |-> k, decisions |-> <<>>] : k \in {"call_failed", "malformed"} }
        \cup { [kind |-> "batch", decisions |-> ds] : ds \in CycleBatches }

NoMarket ==
    [s \in {"BTCUSDT", "ETHUSDT", "SOLUSDT"} |-> MarketData(FALSE, FALSE, 0, 0)]

NoContext == [candidate_coins |-> {}, positions |-> {}, account_equity |-> 0,
              market_data_map |-> {}]
NoResponse == [kind |-> "none", decisions |-> <<>>]
\* DecisionRecord() with record.success = True (207-208)
\* remaining is the pause left that the error message of a risk pause gives
NewRecord == [success |-> TRUE, error_message |-> "", remaining |-> 0,
              decisions |-> <<>>]

Threads == 1..MaxThreads

\* no thread started, the flag as __init__ leaves it (auto_trader.py 100)
LIdle ==
    /\ is_running = FALSE
    /\ thread_pc = [t \in Threads |-> "unstarted"]
    /\ last_cycle = [t \in Threads |-> "none"]
    /\ main_pc = "serving"

\* the end of _run_cycle on a path that logs the record and leaves
EndCycle(rec, made, write_ok) ==
    /\ pc' = "recorded"
    /\ record' = rec
    /\ calls' = made
    /\ log' = log_decision(log, rec, stats_total_decisions, write_ok)
    /\ stats_total_decisions' = stats_total_decisions + 1
    /\ last_write_ok' = write_ok
    /\ todo' = <<>>

\* a record of a fatal stage that keeps the success flag it was created with
FailedRecord_success_kept(stage) ==
    [success |-> TRUE, error_message |-> stage, remaining |-> 0, decisions |-> <<>>]

\* record.success = False and record.error_message (214-215, 229-230,
\* 290-291)
FailedRecord(stage) ==
    [success |-> FALSE, error_message |-> stage, remaining |-> 0, decisions |-> <<>>]

\* ---------------------------------------------------------------------
\* _build_trading_context (auto_trader.py 375-523) and the Context it
\* constructs (engine.py 62-82)
\* ---------------------------------------------------------------------

\* the fields of the Context dataclass (engine.py 65-82)
context_fields ==
    {"current_time", "runtime_minutes", "call_count", "account", "positions",
     "candidate_coins", "market_data_map", "oi_top_data_map", "performance",
     "btc_eth_leverage", "altcoin_leverage", "short_interval", "last_enter_time",
     "last_stop_time", "last_take_profit_time", "consecutive_losses_count",
     "daily_loss_percent"}

\* the keyword arguments of the Context(...) call (auto_trader.py 496-521)
context_keywords ==
    {"current_time", "runtime_minutes", "call_count", "btc_eth_leverage",
     "altcoin_leverage", "medium_interval", "account", "positions",
     "candidate_coins", "performance", "last_enter_time", "last_stop_time",
     "last_take_profit_time", "consecutive_losses_count", "daily_loss_percent"}

Built(error, made, context) == [error |-> error, calls |-> made, context |-> context]

\* _build_trading_context (375-523): the first statement that raises ends
\* it; error "" stands for a returned Context.  A dataclass constructor
\* raises TypeError for a keyword that is not one of its fields.
build_trading_context(w) ==
    LET c1 == <<Call("get_balance", "")>>
        c2 == Append(c1, Call("get_positions", ""))
    IN  IF ~w.balance_ok THEN Built("get_balance_failed", c1, NoContext)
        ELSE IF ~w.positions_ok THEN Built("get_positions_failed", c2, NoContext)
        ELSE IF \E pos \in w.reported : pos.entry_price = 0
        THEN Built("ZeroDivisionError", c2, NoContext)
        ELSE IF ~w.pool_ok THEN Built("coin_pool_failed", c2, NoContext)
        ELSE IF context_keywords \ context_fields # {}
        THEN Built("TypeError", c2, NoContext)
        ELSE Built("", c2,
                   [candidate_coins |-> {"SOLUSDT"},
                    positions |-> { <<pos.symbol, pos.side>> : pos \in w.reported },
                    account_equity |-> w.equity, market_data_map |-> {}])

\* a loop that never pauses
risk_paused_never(t, until) == FALSE

\* time.time() < self.stop_until (211)
risk_paused(t, until) == t < until

\* _run_cycle 198-218: time.time() < stop_until; the record of a paused
\* cycle carries the pause that is left (212-215)
CycleRiskPaused ==
    /\ pc = "idle" /\ call_count < MaxCycles
    /\ risk_paused(now, stop_until)
    /\ call_count' = call_count + 1
    /\ \E write_ok \in BOOLEAN :
          EndCycle([FailedRecord("risk_pause") EXCEPT !.remaining = stop_until - now],
                   <<>>, write_ok)
    /\ UNCHANGED <<now, stop_until, positions, ctx, market, ai_response, v_vars, l_vars>>

\* _run_cycle 220-234: the cycle is not paused and _build_trading_context
\* (build_trading_context above) is called.  The exchange answers or fails
\* at get_balance and at get_positions, the coin pool answers or fails; the
\* builder raises in every case, with both adapter calls answering at the
\* Context(...) call, and the cycle records the failure and raises.
CycleContextFails ==
    /\ pc = "idle" /\ call_count < MaxCycles
    /\ ~risk_paused(now, stop_until)
    /\ call_count' = call_count + 1
    /\ \E balance_ok \in BOOLEAN, positions_ok \in BOOLEAN, pool_ok \in BOOLEAN,
          write_ok \in BOOLEAN :
          LET reported == { [symbol |-> p[1], side |-> p[2], entry_price |-> 100,
                             mark_price |-> 100] : p \in positions }
              built == build_trading_context(
                           [balance_ok |-> balance_ok, equity |-> 1000,
                            positions_ok |-> positions_ok, reported |-> reported,
                            pool_ok |-> pool_ok, performance_ok |-> TRUE])
          IN  /\ built.error # ""
              /\ EndCycle(FailedRecord("build_context"), built.calls, write_ok)
    /\ UNCHANGED <<now, stop_until, positions, ctx, market, ai_response, v_vars, l_vars>>

\* AutoTrader.run 186-191: the loop sleeps one scan interval; the locals of
\* the finished _run_cycle are gone
Sleep ==
    /\ pc = "recorded"
    /\ pc' = "idle"
    /\ now' = now + 1
    /\ ctx' = NoContext
    /\ market' = NoMarket
    /\ ai_response' = NoResponse
    /\ record' = NewRecord
    /\ calls' = <<>>
    /\ last_write_ok' = FALSE
    /\ UNCHANGED <<stop_until, call_count, positions, todo, log, stats_total_decisions,
                   v_vars, l_vars>>

(***************************************************************************)
(* Inputs of the validator harness.                                        *)
(***************************************************************************)
NoResult == [ok |-> FALSE, index |-> 0, error |-> "none"]

\* the agent as constructed and never run
CIdle ==
    /\ pc = "idle" /\ now = 1 /\ stop_until = 0 /\ call_count = 0
    /\ positions = {} /\ ctx = NoContext /\ market = NoMarket
    /\ ai_response = NoResponse
    /\ todo = <<>> /\ record = NewRecord /\ calls = <<>> /\ log = <<>>
    /\ stats_total_decisions = 0 /\ last_write_ok = FALSE
    /\ LIdle

\* _validate_decisions applied to the drawn arguments
Validate ==
    /\ v_pc = "input"
    /\ v_pc' = "done"
    /\ v_out' = validate_decisions(v_in.decisions, v_in.account_equity,
                                   v_in.btc_eth_leverage, v_in.altcoin_leverage)
    /\ UNCHANGED <<v_in, c_vars, l_vars>>

\* The arguments of _validate_decisions: a single decision with every field
\* over its boundary values for equity 1000 (RichDecisions), or a batch of
\* sound decisions and of ones breaking one rule each (ProbeDecisions).
InitValidate ==
    LET RichDecisions ==
            { Decision(s, a, l, z, sl, tp) :
                s \in {"BTCUSDT", "ETHUSDT", "SOLUSDT"},
                a \in valid_actions \cup {"bogus"},
                l \in {0, 5, 6, 10, 11},
                z \in {0, 1400, 1515, 1516, 10100, 10101},
                sl \in {0, 3000, 3300}, tp \in {0, 3000, 3150, 3300} }
        ProbeDecisions ==
            { Decision(s, a, l, z, 3000, 3300) :
                s \in {"ETHUSDT", "SOLUSDT"}, a \in {"open_long", "hold", "bogus"},
                l \in {0, 5}, z \in {1400, 1516} }
        ValidateInputs ==
            { [decisions |-> ds, account_equity |-> 1000,
               btc_eth_leverage |-> caps[1], altcoin_leverage |-> caps[2]] :
                ds \in { <<d>> : d \in RichDecisions }
                       \cup SeqsUpTo(ProbeDecisions, MaxBatch),
                caps \in {<<10, 10>>, <<10, 5>>} }
    IN  /\ v_pc = "input"
        /\ v_in \in ValidateInputs
        /\ v_out = NoResult
        /\ CIdle

(***************************************************************************)
(* _fetch_market_data_for_context applied to drawn arguments: the symbols  *)
(* of the positions, the candidate symbols, and what get_market_data       *)
(* answers for each symbol (open-interest values of 1M, 14.99M and 15.00M  *)
(* USD among them, at a price of 1 or 2, and answers without a price or    *)
(* without open interest).                                                 *)
(***************************************************************************)
InitFetch ==
    LET FetchSymbols == {"BTCUSDT", "SOLUSDT"}
        FetchAnswers ==
            {MarketData(FALSE, FALSE, 0, 0)}
            \cup { MarketData(TRUE, h, oi, price) :
                     h \in BOOLEAN, oi \in {1000000, 7495000, 14990000, 15000000},
                     price \in {0, 1, 2} }
    IN  /\ v_pc = "fetch_input"
        /\ v_in \in [position_symbols : SUBSET FetchSymbols,
                      candidate_symbols : SUBSET FetchSymbols,
                      answers : [FetchSymbols -> FetchAnswers]]
        /\ v_out = {}
        /\ CIdle

Fetch ==
    /\ v_pc = "fetch_input"
    /\ v_pc' = "fetched"
    /\ v_out' = fetch_market_data_for_context(v_in.position_symbols,
                                              v_in.candidate_symbols, v_in.answers)
    /\ UNCHANGED <<v_in, c_vars, l_vars>>

SpecFetch == InitFetch /\ [][Fetch]_vars

SpecValidate == InitValidate /\ [][Validate]_vars

(***************************************************************************)
(* call_with_messages (mcp/client.py 59-97).  An attempt is one _call_once *)
(* and ends with the text of the answer or with an exception.  An          *)
(* exception's message is kept as the set of the fragments it contains, so *)
(* that "signature in err_str" is membership.                              *)
(***************************************************************************)
max_retries == 3

retryable_errors ==
    {"EOF", "timeout", "connection reset", "connection refused",
     "temporary failure", "no such host"}

\* a client that takes every failure for a transient one
is_retryable_error_always(err) == TRUE

\* _is_retryable_error (171-185)
is_retryable_error(err) == \E retryable \in retryable_errors : retryable \in err

\* a client that waits the same time before every retry
wait_time_constant(attempt) == 2

\* 92: wait_time = attempt * 2, in seconds
wait_time(attempt) == attempt * 2

\* v_out is the call so far: the attempts made, the sleeps between them, and
\* how it ended (status "returned" with value, or "raised" with error)
InitCall ==
    /\ v_pc = "call_input"
    /\ v_in \in [api_key_set : BOOLEAN]
    /\ v_out = [attempts |-> <<>>, waits |-> <<>>, value |-> "", error |-> <<>>]
    /\ CIdle

\* 59-73: the API key is checked before the first attempt
CallStart ==
    /\ v_pc = "call_input"
    /\ IF v_in.api_key_set
       THEN v_pc' = "calling" /\ v_out' = v_out
       ELSE v_pc' = "raised" /\ v_out' = [v_out EXCEPT !.error = <<"no_api_key">>]
    /\ UNCHANGED <<v_in, c_vars, l_vars>>

\* one pass of the for loop (75-95) and, after the last pass, the raise
\* that follows the loop (97).  One _call_once may end with an answer, a
\* failure with one of the retryable signatures in its message, or a
\* failure with none ("Connection refused" as the socket layer spells it,
\* an HTTP 401, an empty response).
CallAttempt ==
    /\ v_pc = "calling"
    /\ \E outcome \in
            LET Answer(text) == [ok |-> TRUE, text |-> text, err |-> {}]
                Failure(err) == [ok |-> FALSE, text |-> "", err |-> err]
            IN  { Answer(t) : t \in {"answer A", "answer B"} }
                \cup { Failure({sig}) : sig \in retryable_errors }
                \cup { Failure(e) : e \in {{"Connection refused"}, {"401"},
                                           {"API empty response"}} } :
          LET attempt == Len(v_out.attempts) + 1
              made == Append(v_out.attempts, outcome)
          IN  IF outcome.ok
              THEN /\ v_pc' = "returned"
                   /\ v_out' = [v_out EXCEPT !.attempts = made, !.value = outcome.text]
              ELSE IF ~is_retryable_error(outcome.err)
              THEN /\ v_pc' = "raised"
                   /\ v_out' = [v_out EXCEPT !.attempts = made,
                                             !.error = <<"raised", outcome.err>>]
              ELSE IF attempt < max_retries
              THEN /\ v_pc' = "calling"
                   /\ v_out' = [v_out EXCEPT !.attempts = made,
                                             !.waits = Append(@, wait_time(attempt))]
              ELSE /\ v_pc' = "raised"
                   /\ v_out' = [v_out EXCEPT !.attempts = made,
                                             !.error = <<"retries_exhausted", outcome.err>>]
    /\ UNCHANGED <<v_in, c_vars, l_vars>>

SpecCall == InitCall /\ [][CallStart \/ CallAttempt]_vars

\* ---------------------------------------------------------------------
\* The AI client configuration (src/python/mcp/client.py 15-56) and the
\* agents that set it (auto_trader.py 120-138)
\* ---------------------------------------------------------------------

MaxAgents == 2

Agents == 1..MaxAgents

\* Config.__init__ (15-23)
default_config_initial ==
    [provider |-> "deepseek", api_key |-> <<>>, secret_key |-> <<>>,
     base_url |-> "https://api.deepseek.com/v1", model |-> "deepseek-chat"]

\* set_deepseek_api_key (30-36)
set_deepseek_api_key(config, api_key) ==
    [config EXCEPT !.provider = "deepseek", !.api_key = api_key,
                   !.base_url = "https://api.deepseek.com/v1",
                   !.model = "deepseek-chat"]

\* set_qwen_api_key (39-46)
set_qwen_api_key(config, api_key, secret_key) ==
    [config EXCEPT !.provider = "qwen", !.api_key = api_key,
                   !.secret_key = secret_key,
                   !.base_url = "https://dashscope.aliyuncs.com/compatible-mode/v1",
                   !.model = "qwen-plus"]

\* set_custom_api (49-56)
set_custom_api(config, api_url, api_key, model_name) ==
    [config EXCEPT !.provider = "custom", !.api_key = api_key,
                   !.base_url = api_url, !.model = model_name]

\* an unset string of an agent's configuration (None or "")
Unset == <<>>

\* AutoTrader.__init__ (120-138): the branch taken for a configuration
ai_branch(config) ==
    IF /\ config.ai_model = "custom" /\ config.custom_api_url # Unset
       /\ config.custom_api_key # Unset /\ config.custom_model_name # Unset
    THEN "custom"
    ELSE IF (config.use_qwen \/ config.ai_model = "qwen") /\ config.qwen_key # Unset
    THEN "qwen"
    ELSE IF config.deepseek_key # Unset
    THEN "deepseek"
    ELSE "raise"

\* AutoTrader.__init__ (120-138): what the constructor leaves in the client
\* configuration it was given
init_ai(current, config) ==
    CASE ai_branch(config) = "custom" ->
             set_custom_api(current, config.custom_api_url, config.custom_api_key,
                            config.custom_model_name)
      [] ai_branch(config) = "qwen" -> set_qwen_api_key(current, config.qwen_key, <<>>)
      [] ai_branch(config) = "deepseek" ->
             set_deepseek_api_key(current, config.deepseek_key)
      [] OTHER -> current

\* _call_once (119-154): the request sent for a client configuration
ai_request(config) ==
    [provider |-> config.provider,
     url |-> <<config.base_url, "/chat/completions">>,
     authorization |-> <<"Bearer", config.api_key>>,
     model |-> config.model]

NoRequest == [provider |-> "none", url |-> <<>>, authorization |-> <<>>, model |-> <<>>]

\* v_in: each agent's configuration, the AI part of an AutoTraderConfig
\* (39, 59-66), where a key or URL is unset or a value that names its
\* agent; v_out: the module's default_config, the state of each agent and
\* the last AI request each agent sent
InitConfig ==
    LET AIConfig(ai_model, use_qwen, deepseek_key, qwen_key, custom_api_url,
                 custom_api_key, custom_model_name) ==
            [ai_model |-> ai_model, use_qwen |-> use_qwen,
             deepseek_key |-> deepseek_key, qwen_key |-> qwen_key,
             custom_api_url |-> custom_api_url, custom_api_key |-> custom_api_key,
             custom_model_name |-> custom_model_name]
        AgentConfigs(a) ==
            { AIConfig("deepseek", FALSE, <<"deepseek_key", a>>, Unset, Unset, Unset, Unset),
              AIConfig("qwen", FALSE, Unset, <<"qwen_key", a>>, Unset, Unset, Unset),
              AIConfig("custom", FALSE, Unset, Unset, <<"custom_api_url", a>>,
                       <<"custom_api_key", a>>, <<"custom_model_name", a>>),
              AIConfig("custom", FALSE, <<"deepseek_key", a>>, Unset,
                       <<"custom_api_url", a>>, <<"custom_api_key", a>>, Unset),
              AIConfig("deepseek", FALSE, Unset, Unset, Unset, Unset, Unset) }
    IN  /\ v_pc = "agents"
        /\ v_in \in { f \in [Agents -> UNION { AgentConfigs(a) : a \in Agents }] :
                          \A a \in Agents : f[a] \in AgentConfigs(a) }
        /\ v_out = [default_config |-> default_config_initial,
                    agent |-> [a \in Agents |-> "none"],
                    request |-> [a \in Agents |-> NoRequest]]
        /\ CIdle

\* TraderManager.add_trader (74) -> AutoTrader.__init__ (120-138)
Construct(a) ==
    /\ v_pc = "agents"
    /\ v_out.agent[a] = "none"
    /\ v_out' = [v_out EXCEPT
                    !.default_config = init_ai(@, v_in[a]),
                    !.agent[a] = IF ai_branch(v_in[a]) = "raise"
                                 THEN "failed" ELSE "constructed"]
    /\ UNCHANGED <<v_pc, v_in, c_vars, l_vars>>

\* an agent's cycle reaches call_with_messages (engine.py 118) and the
\* request of _call_once leaves, built from the module's default_config
\* (client.py 102, 122, 132, 139-146)
AICall(a) ==
    /\ v_pc = "agents"
    /\ v_out.agent[a] = "constructed"
    /\ v_out' = [v_out EXCEPT
                    !.request[a] =
                        ai_request(v_out.default_config)]
    /\ UNCHANGED <<v_pc, v_in, c_vars, l_vars>>

NextConfig == \E a \in Agents : Construct(a) \/ AICall(a)

SpecConfig == InitConfig /\ [][NextConfig]_vars

\* ---------------------------------------------------------------------
\* FuturesTrader.open_long / open_short
\* (src/backend/python/trader/binance_futures.py 66-200, 288-294)
\* ---------------------------------------------------------------------

\* how one call of the exchange client ends: it returns, it raises a
\* BinanceAPIException with a message, or it raises something else (the
\* connection failed)
Returned == [exc |-> "none", message |-> {}]
APIError(message) == [exc |-> "BinanceAPIException", message |-> message]
Disconnected == [exc |-> "ConnectionError", message |-> {"Connection aborted"}]

ExchangeOutcomes ==
    {Returned, APIError({"No need to change"}), APIError({"Margin is insufficient"}),
     Disconnected}

OpenLeverages == {3, 5}

\* a trader that takes every refusal of the exchange for "already so"
no_need_to_change_always(outcome) == outcome.exc = "BinanceAPIException"

\* 94-96, 121-122, 172-173: "No need to change" in str(e)
no_need_to_change(outcome) ==
    outcome.exc = "BinanceAPIException" /\ "No need to change" \in outcome.message

\* one call of the exchange client, as the open sequence records it
Event(api, outcome) == [api |-> api, outcome |-> outcome]

\* position_side_defined: whether the installed binance.enums, whose names
\* the module takes with "from binance.enums import *" (line 5), defines
\* POSITION_SIDE_LONG and POSITION_SIDE_SHORT; the library is no part of the
\* repository, and a release without them makes the names undefined
InitOpen ==
    /\ v_pc = "open_cancel"
    /\ v_in \in [side : {"long", "short"}, symbol : {"SOLUSDT"},
                 leverage : OpenLeverages, position_side_defined : BOOLEAN]
    /\ v_out = [events |-> <<>>, warnings |-> <<>>, result |-> <<"none">>]
    /\ CIdle

\* 102-106 / 153-157 with cancel_all_orders (288-294): whatever the
\* cancellation raises is logged as a warning and the open goes on
OpenCancelAllOrders ==
    /\ v_pc = "open_cancel"
    /\ \E outcome \in ExchangeOutcomes :
          v_out' = [v_out EXCEPT
                       !.events = Append(@, Event("futures_cancel_all_orders", outcome)),
                       !.warnings = IF outcome = Returned THEN @
                                    ELSE Append(@, "cancel_all_orders failed")]
    /\ v_pc' = "open_leverage"
    /\ UNCHANGED <<v_in, c_vars, l_vars>>

\* 109 / 160 with set_leverage (66-98): the positions are read (70-78,
\* get_positions 34-64) and no change is requested when the symbol's
\* position already has the target leverage; otherwise the change, after
\* which a refusal other than "No need to change" and any other exception
\* end the open.  current_leverage is the leverage the positions give for
\* the symbol (0: no position, or the read failed, which is passed over).
OpenSetLeverage ==
    /\ v_pc = "open_leverage"
    /\ \E read \in {Returned, APIError({"Service unavailable"}), Disconnected},
          reported_leverage \in {0} \cup OpenLeverages, outcome \in ExchangeOutcomes :
          LET current_leverage == IF read = Returned THEN reported_leverage ELSE 0
              looked == Append(v_out.events, Event("futures_position_information", read))
          IN
          IF current_leverage = v_in.leverage /\ current_leverage > 0
          THEN /\ v_out' = [v_out EXCEPT !.events = Append(looked, Event("set_leverage_skipped", Returned))]
               /\ v_pc' = "open_margin"
          ELSE LET made == Append(looked, Event("futures_change_leverage", outcome))
               IN  IF outcome = Returned \/ no_need_to_change(outcome)
                   THEN /\ v_out' = [v_out EXCEPT !.events = made]
                        /\ v_pc' = "open_margin"
                   ELSE /\ v_out' = [v_out EXCEPT !.events = made,
                                                  !.result = <<"raised", "set_leverage">>]
                        /\ v_pc' = "open_raised"
    /\ UNCHANGED <<v_in, c_vars, l_vars>>

\* 112-124 / 163-175: the ISOLATED request; only a BinanceAPIException
\* that says "No need to change" is passed over
OpenMarginType ==
    /\ v_pc = "open_margin"
    /\ \E outcome \in ExchangeOutcomes :
          LET made == Append(v_out.events, Event("futures_change_margin_type", outcome))
          IN  IF outcome = Returned \/ no_need_to_change(outcome)
              THEN /\ v_out' = [v_out EXCEPT !.events = made]
                   /\ v_pc' = "open_order"
              ELSE /\ v_out' = [v_out EXCEPT !.events = made,
                                             !.result = <<"raised", "margin_type">>]
                   /\ v_pc' = "open_raised"
    /\ UNCHANGED <<v_in, c_vars, l_vars>>

\* 127-149 / 178-200: the quantity is formatted, for which the exchange
\* information is requested (_format_quantity 413-421 with
\* _get_symbol_precision 359-376): a BinanceAPIException of the request is
\* logged as a warning (375), an answer that has no LOT_SIZE step for the
\* symbol (listed FALSE) is logged as a warning too (372), and any other
\* exception is passed over without a word (419); then the market order,
\* BUY/LONG or SELL/SHORT.  The arguments of the order call are evaluated
\* before the call: an undefined POSITION_SIDE_LONG / POSITION_SIDE_SHORT
\* raises NameError, which the except clause (148 / 199) does not catch,
\* and no order is sent.
OpenCreateOrder ==
    /\ v_pc = "open_order"
    /\ \E info \in {Returned, APIError({"Service unavailable"}), Disconnected},
          listed \in BOOLEAN,
          outcome \in ExchangeOutcomes \ {APIError({"No need to change"})} :
          LET order == IF v_in.side = "long" THEN <<"BUY", "LONG", "MARKET">>
                       ELSE <<"SELL", "SHORT", "MARKET">>
              formatted == Append(v_out.events, Event("futures_exchange_info", info))
              noted == IF info.exc = "BinanceAPIException"
                       THEN Append(v_out.warnings, "get_symbol_precision failed")
                       ELSE IF info = Returned /\ ~listed
                       THEN Append(v_out.warnings, "get_symbol_precision not found")
                       ELSE v_out.warnings
              made == Append(formatted,
                             [api |-> "futures_create_order", outcome |-> outcome,
                              order |-> order])
          IN  IF ~v_in.position_side_defined
              THEN /\ v_out' = [v_out EXCEPT !.events = formatted, !.warnings = noted,
                                             !.result = <<"raised", "NameError">>]
                   /\ v_pc' = "open_raised"
              ELSE IF outcome = Returned
              THEN /\ v_out' = [v_out EXCEPT !.events = made, !.warnings = noted,
                                             !.result = <<"order", order>>]
                   /\ v_pc' = "open_returned"
              ELSE /\ v_out' = [v_out EXCEPT !.events = made, !.warnings = noted,
                                             !.result = <<"raised", "create_order">>]
                   /\ v_pc' = "open_raised"
    /\ UNCHANGED <<v_in, c_vars, l_vars>>

SpecOpen == InitOpen /\ [][OpenCancelAllOrders \/ OpenSetLeverage \/ OpenMarginType \/ OpenCreateOrder]_vars

\* ---------------------------------------------------------------------
\* The four executors in detail: the protective orders after an open and
\* the timestamps last_enter_time, last_stop_time, last_take_profit_time
\* (src/backend/python/trader/auto_trader.py 619-803)
\* ---------------------------------------------------------------------

\* what an executor leaves: the error raised ("" for none), the trader
\* calls made in order, the warnings logged, the timestamps
Executed(error, made, warnings, ts) ==
    [error |-> error, calls |-> made, warnings |-> warnings, timestamps |-> ts]

\* an executor that lets a failing protective order end the open
protect_or_raise(d, w) ==
    IF ~w.stop_loss_ok
    THEN [calls |-> <<Call("set_stop_loss", d.symbol)>>, warnings |-> <<>>,
          error |-> "set_stop_loss_failed"]
    ELSE IF ~w.take_profit_ok
    THEN [calls |-> <<Call("set_stop_loss", d.symbol), Call("set_take_profit", d.symbol)>>,
          warnings |-> <<>>, error |-> "set_take_profit_failed"]
    ELSE [calls |-> <<Call("set_stop_loss", d.symbol), Call("set_take_profit", d.symbol)>>,
          warnings |-> <<>>, error |-> ""]

\* 657-665 / 705-713: set_stop_loss, then set_take_profit, each in its own
\* try/except Exception that logs a warning
protect(d, w) ==
    [calls |-> <<Call("set_stop_loss", d.symbol), Call("set_take_profit", d.symbol)>>,
     warnings |-> (IF w.stop_loss_ok THEN <<>> ELSE <<"set_stop_loss failed">>)
                  \o (IF w.take_profit_ok THEN <<>> ELSE <<"set_take_profit failed">>),
     error |-> ""]

\* _execute_open_long_with_record / _execute_open_short_with_record
\* (619-665, 667-713) at time t
open_with_record(d, side, w, ts, t) ==
    LET c1 == <<Call("get_positions", "")>>
        c2 == Append(c1, Call(d.action, d.symbol))
        opened == [ts EXCEPT !.last_enter_time = t,
                             !.first_seen = @ \cup {<<d.symbol, side>>}]
        p == protect(d, w)
    IN  IF ~w.positions_ok THEN Executed("get_positions_failed", c1, <<>>, ts)
        ELSE IF \E pos \in w.reported : pos.symbol = d.symbol /\ pos.side = side
        THEN Executed("already_open", c1, <<>>, ts)
        ELSE IF ~w.market_ok THEN Executed("market_data_failed", c1, <<>>, ts)
        ELSE IF w.current_price = 0 THEN Executed("ZeroDivisionError", c1, <<>>, ts)
        ELSE IF ~w.order_ok THEN Executed("order_failed", c2, <<>>, ts)
        ELSE Executed(p.error, c2 \o p.calls, p.warnings, opened)

\* a reading of the thresholds that takes exactly 1% for a stop or a profit
pnl_class_inclusive(profit, entry_price) ==
    IF profit * 100 <= -entry_price THEN "stop_loss"
    ELSE IF profit * 100 >= entry_price THEN "take_profit"
    ELSE "neither"

\* 733-737 / 778-782: pnl_pct = profit / entry_price * 100 against -1.0
\* and +1.0 (entry_price > 0)
pnl_class(profit, entry_price) ==
    IF profit * 100 < -entry_price THEN "stop_loss"
    ELSE IF profit * 100 > entry_price THEN "take_profit"
    ELSE "neither"

\* the position the loop of a close stops at (729-738, 774-783)
matching_positions(d, side, w) ==
    { pos \in w.reported : pos.symbol = d.symbol /\ pos.side = side }

\* _execute_close_long_with_record / _execute_close_short_with_record
\* (715-758, 760-803) at time t; the profit is mark - entry for a long and
\* entry - mark for a short (732 / 777)
close_with_record(d, side, w, ts, t) ==
    LET c1 == <<Call("get_positions", "")>>
        c2 == Append(c1, Call(d.action, d.symbol))
        found == matching_positions(d, side, w)
        profit_of(pos) == IF side = "long" THEN pos.mark_price - pos.entry_price
                          ELSE pos.entry_price - pos.mark_price
        class == IF found = {} THEN "neither"
                 ELSE LET pos == CHOOSE pos \in found : TRUE
                      IN  pnl_class(profit_of(pos), pos.entry_price)
        closed == IF class = "stop_loss" THEN [ts EXCEPT !.last_stop_time = t]
                  ELSE IF class = "take_profit"
                  THEN [ts EXCEPT !.last_take_profit_time = t]
                  ELSE ts
    IN  IF ~w.market_ok THEN Executed("market_data_failed", <<>>, <<>>, ts)
        ELSE IF ~w.positions_ok THEN Executed("get_positions_failed", c1, <<>>, ts)
        ELSE IF \E pos \in found : pos.entry_price = 0
        THEN Executed("ZeroDivisionError", c1, <<>>, ts)
        ELSE IF ~w.order_ok THEN Executed("order_failed", c2, <<>>, ts)
        ELSE Executed("", c2, <<>>, closed)

\* _execute_decision_with_record (600-617) for the four trading actions
execute_with_record(d, w, ts, t) ==
    IF d.action = "open_long" THEN open_with_record(d, "long", w, ts, t)
    ELSE IF d.action = "open_short" THEN open_with_record(d, "short", w, ts, t)
    ELSE IF d.action = "close_long" THEN close_with_record(d, "long", w, ts, t)
    ELSE close_with_record(d, "short", w, ts, t)

\* the time of the execution
ExecuteTime == 7

\* what get_positions may report: nothing, or one entry (binance_futures.py
\* 45-61) with entry 100 and a mark from 2% below to 2% above, or with an
\* entry of 0
ReportedPositions ==
    LET Position(symbol, side, entry_price, mark_price) ==
            [symbol |-> symbol, side |-> side, entry_price |-> entry_price,
             mark_price |-> mark_price]
    IN  {{}} \cup { {Position("SOLUSDT", side, 100, mark)}
                      : side \in {"long", "short"}, mark \in {98, 99, 100, 101, 102} }
             \cup { {Position("SOLUSDT", side, 0, 100)} : side \in {"long", "short"} }

\* v_in: one of the four trading decisions; what the outside world does
\* during the executor: the answer of trader.get_positions (it fails, or
\* reports at most one position of the decision's symbol), of
\* get_market_data (it fails, or gives a price, 0 when no kline came), and
\* whether the order, the stop-loss and the take-profit placements
\* succeed; the three timestamps and position_first_seen_time's keys
\* (104-108, 97) before the execution (0: never)
InitExecute ==
    LET Timestamps(last_enter_time, last_stop_time, last_take_profit_time, first_seen) ==
            [last_enter_time |-> last_enter_time, last_stop_time |-> last_stop_time,
             last_take_profit_time |-> last_take_profit_time, first_seen |-> first_seen]
        Worlds ==
            [positions_ok : BOOLEAN, reported : ReportedPositions, market_ok : BOOLEAN,
             current_price : {0, 1}, order_ok : BOOLEAN, stop_loss_ok : BOOLEAN,
             take_profit_ok : BOOLEAN]
    IN  /\ v_pc = "execute_input"
        /\ v_in \in [decision : { Decision("SOLUSDT", a, 3, 100, 90, 130) :
                                    a \in {"open_long", "open_short",
                                           "close_long", "close_short"} },
                     world : Worlds,
                     timestamps : { Timestamps(0, 0, 0, {}), Timestamps(3, 4, 5, {}) }]
        /\ v_out = Executed("none", <<>>, <<>>, Timestamps(0, 0, 0, {}))
        /\ CIdle

\* the try block of the decision loop around one executor (355-364)
Execute ==
    /\ v_pc = "execute_input"
    /\ v_pc' = "executed"
    /\ v_out' = execute_with_record(v_in.decision, v_in.world, v_in.timestamps, ExecuteTime)
    /\ UNCHANGED <<v_in, c_vars, l_vars>>

SpecExecute == InitExecute /\ [][Execute]_vars

\* ---------------------------------------------------------------------
\* _build_trading_context applied to drawn answers
\* ---------------------------------------------------------------------

\* v_in: the answers the builder gets: get_balance and get_positions (each
\* may raise), the positions reported, the merged coin pool (its unguarded
\* reads, coin_pool.py 547-548, may raise), analyze_performance (guarded)
InitBuild ==
    /\ v_pc = "build_input"
    /\ v_in \in [balance_ok : BOOLEAN, equity : {0, 1000}, positions_ok : BOOLEAN,
                 reported : ReportedPositions, pool_ok : BOOLEAN,
                 performance_ok : BOOLEAN]
    /\ v_out = Built("none", <<>>, NoContext)
    /\ CIdle

\* _run_cycle 226-234: the call of the builder in its try block
Build ==
    /\ v_pc = "build_input"
    /\ v_pc' = "built"
    /\ v_out' = build_trading_context(v_in)
    /\ UNCHANGED <<v_in, c_vars, l_vars>>

SpecBuild == InitBuild /\ [][Build]_vars

\* ---------------------------------------------------------------------
\* _build_system_prompt and _build_user_prompt (engine.py 201-381, 384-559)
\* ---------------------------------------------------------------------

\* the fields of the MarketData dataclass (market/data.py 39-52)
market_data_fields ==
    {"symbol", "current_price", "price_change_1h", "price_change_4h",
     "current_ema20", "current_macd", "current_rsi7", "open_interest",
     "funding_rate", "intraday_series", "longer_term_context"}

\* the attributes of the BTC entry that the BTC line reads outside any try
\* block (engine.py 411)
btc_line_attributes ==
    {"current_price", "medium_interval", "long_interval", "current_macd",
     "current_rsi7"}

\* 201-381: the template file is read; when it is missing the built-in
\* text is used, on any other error a one-sentence text
build_system_prompt(template) ==
    IF template = "present" THEN "template with constraints and output format"
    ELSE IF template = "missing" THEN "built-in default text"
    ELSE "one-sentence text"

\* a status that looks at the entry cooldown only
cooldown_status_entry_only(t, last_enter_time, last_stop_time, last_take_profit_time) ==
    IF last_enter_time # 0 /\ t - last_enter_time < 9 THEN "cooling" ELSE "ok"

\* 471-495: times in minutes, 0 for a timestamp that is not set; the
\* timestamps are ISO strings written by the executors, which
\* datetime.fromisoformat reads back
cooldown_status(t, last_enter_time, last_stop_time, last_take_profit_time) ==
    IF \/ (last_enter_time # 0 /\ t - last_enter_time < 9)
       \/ (last_stop_time # 0 /\ t - last_stop_time < 6)
       \/ (last_take_profit_time # 0 /\ t - last_take_profit_time < 3)
    THEN "cooling" ELSE "ok"

UserPrompt(error, sections, status) ==
    [error |-> error, sections |-> sections, cooldown_status |-> status]

\* _build_user_prompt (384-559) at time t: the sections appended in order;
\* the first statement that raises ends it, error "" stands for a
\* returned prompt
build_user_prompt(c, t) ==
    LET s1 == <<"time">>
        s2 == IF "BTCUSDT" \in c.market_symbols THEN Append(s1, "btc") ELSE s1
        s3 == s2 \o <<"account", "state">>
        status == cooldown_status(t, c.last_enter_time, c.last_stop_time,
                                  c.last_take_profit_time)
        s4 == s3 \o <<"cooldown_status", "positions", "candidates", "closing">>
    IN  IF "BTCUSDT" \in c.market_symbols /\ btc_line_attributes \ market_data_fields # {}
        THEN UserPrompt("AttributeError", s1, "none")
        ELSE IF c.total_equity = 0
        THEN UserPrompt("ZeroDivisionError", s2, "none")
        ELSE UserPrompt("", s4, status)

\* the time of the prompt
PromptTime == 20

\* the fields of a Context that the user prompt depends on; a timestamp
\* is not set (0) or between 2 and 10 minutes old
InitPrompt ==
    LET PromptTimestamps ==
            {0} \cup { PromptTime - age : age \in {2, 3, 5, 6, 8, 9, 10} }
        PromptContexts ==
            [total_equity : {0, 1000}, has_positions : BOOLEAN,
             market_symbols : {{}, {"SOLUSDT"}, {"BTCUSDT", "SOLUSDT"}},
             last_enter_time : PromptTimestamps, last_stop_time : PromptTimestamps,
             last_take_profit_time : PromptTimestamps]
    IN  /\ v_pc = "prompt_input"
        /\ v_in \in [ctx : PromptContexts, template : {"present", "missing", "unreadable"}]
        /\ v_out = [system |-> "none", user |-> UserPrompt("none", <<>>, "none")]
        /\ CIdle

\* get_full_decision 113-115: the two prompts are built one after the other
BuildPrompts ==
    /\ v_pc = "prompt_input"
    /\ v_pc' = "prompted"
    /\ v_out' = [system |-> build_system_prompt(v_in.template),
                 user |-> build_user_prompt(v_in.ctx, PromptTime)]
    /\ UNCHANGED <<v_in, c_vars, l_vars>>

SpecPrompt == InitPrompt /\ [][BuildPrompts]_vars

\* ---------------------------------------------------------------------
\* The response parser: _extract_cot_trace, _extract_decisions,
\* _fix_missing_quotes, _find_matching_bracket (engine.py 584-670)
\* ---------------------------------------------------------------------

(***************************************************************************)
(* A response is a sequence of tokens.  "t" is a letter, "_" a blank,      *)
(* "[" "]" "," themselves, "q" a typographic double quote and "Q" the      *)
(* ASCII one.  "O" is the text of a JSON object with all nine fields, "P"  *)
(* of one with symbol and action only; "<" is the text of an object up to  *)
(* the inside of its last string value ({"symbol": .., "reasoning": "x)    *)
(* and ">" the rest of it (y"}), so that the tokens between "<" and ">"    *)
(* are characters inside a JSON string.  Positions are counted from 0 as   *)
(* the code counts them, -1 standing for "not found".                      *)
(***************************************************************************)
MaxChunks == 3

\* response.find("[") from position i
RECURSIVE find_from(_, _, _)
find_from(response, ch, i) ==
    IF i >= Len(response) THEN -1
    ELSE IF response[i + 1] = ch THEN i
    ELSE find_from(response, ch, i + 1)

find(response, ch) == find_from(response, ch, 0)

\* response[a:b]
slice(response, a, b) == SubSeq(response, a + 1, b)

RECURSIVE lstrip(_)
lstrip(text) ==
    IF text # <<>> /\ Head(text) = "_" THEN lstrip(Tail(text)) ELSE text

RECURSIVE rstrip(_)
rstrip(text) ==
    IF text # <<>> /\ text[Len(text)] = "_"
    THEN rstrip(SubSeq(text, 1, Len(text) - 1)) ELSE text

\* str.strip()
strip(text) == rstrip(lstrip(text))

\* _extract_cot_trace (584-594)
extract_cot_trace(response) ==
    LET json_start == find(response, "[")
    IN  IF json_start > 0 THEN strip(slice(response, 0, json_start))
        ELSE strip(response)

\* the for loop of _find_matching_bracket (661-668)
RECURSIVE matching_from(_, _, _)
matching_from(text, i, depth) ==
    IF i >= Len(text) THEN -1
    ELSE IF text[i + 1] = "[" THEN matching_from(text, i + 1, depth + 1)
    ELSE IF text[i + 1] = "]"
    THEN IF depth - 1 = 0 THEN i ELSE matching_from(text, i + 1, depth - 1)
    ELSE matching_from(text, i + 1, depth)

\* _find_matching_bracket (656-670)
find_matching_bracket(text, start) ==
    IF start >= Len(text) \/ text[start + 1] # "[" THEN -1
    ELSE matching_from(text, start, 0)

\* _fix_missing_quotes (641-647): typographic quotes become ASCII quotes
fix_missing_quotes(text) ==
    [i \in 1..Len(text) |-> IF text[i] = "q" THEN "Q" ELSE text[i]]

\* the position (from 1) of the first token at or after i that is not one
\* of the characters that may stand inside a JSON string as they are, 0
\* when there is none
RECURSIVE string_end(_, _)
string_end(text, i) ==
    IF i > Len(text) THEN 0
    ELSE IF text[i] \in {"t", "_", "[", "]", ",", "q"} THEN string_end(text, i + 1)
    ELSE i

JsonError == [ok |-> FALSE, items |-> <<>>]

\* json.loads of a text that starts with "[" followed, as _extract_decisions
\* does (620-637), by item.get on every element: a value that is not an
\* object (a nested array, a bare word, a string) ends in an exception as
\* invalid JSON does.  where: "first" after the "[", "value" after a ",",
\* "after" after a value.  full_object and partial_object are the objects
\* the tokens "O" and "P" are the text of, string_object(content) the one
\* that "<" content ">" is the text of.
RECURSIVE json_items(_, _, _, _)
json_items(text, i, where, items) ==
    LET full_object ==
            [symbol |-> "BTCUSDT", action |-> "open_long", leverage |-> 5,
             position_size_usd |-> 100, stop_loss |-> 90, take_profit |-> 130,
             confidence |-> 80, risk_usd |-> 10, reasoning |-> <<"t">>]
        partial_object == [symbol |-> "ETHUSDT", action |-> "hold"]
        string_object(content) ==
            [symbol |-> "SOLUSDT", action |-> "wait", reasoning |-> content]
    IN
    IF i > Len(text) THEN JsonError
    ELSE IF text[i] = "_" THEN json_items(text, i + 1, where, items)
    ELSE IF where = "after"
    THEN IF text[i] = "," THEN json_items(text, i + 1, "value", items)
         ELSE IF text[i] = "]" /\ i = Len(text) THEN [ok |-> TRUE, items |-> items]
         ELSE JsonError
    ELSE IF text[i] = "O" THEN json_items(text, i + 1, "after", Append(items, full_object))
    ELSE IF text[i] = "P" THEN json_items(text, i + 1, "after", Append(items, partial_object))
    ELSE IF text[i] = "<"
    THEN LET k == string_end(text, i + 1)
         IN  IF k # 0 /\ text[k] = ">"
             THEN json_items(text, k + 1, "after",
                             Append(items, string_object(SubSeq(text, i + 1, k - 1))))
             ELSE JsonError
    ELSE IF text[i] = "]" /\ where = "first" /\ i = Len(text)
    THEN [ok |-> TRUE, items |-> items]
    ELSE JsonError

json_loads(text) ==
    IF text # <<>> /\ text[1] = "[" THEN json_items(text, 2, "first", <<>>)
    ELSE JsonError

\* Decision(...) built from one element with item.get(key, default)
\* (623-633); the empty string is the empty sequence of characters
decision_from_item(item) ==
    LET item_get(key, default) == IF key \in DOMAIN item THEN item[key] ELSE default
    IN  [symbol |-> item_get("symbol", ""), action |-> item_get("action", ""),
         leverage |-> item_get("leverage", 0),
         position_size_usd |-> item_get("position_size_usd", 0),
         stop_loss |-> item_get("stop_loss", 0),
         take_profit |-> item_get("take_profit", 0),
         confidence |-> item_get("confidence", 0),
         risk_usd |-> item_get("risk_usd", 0),
         reasoning |-> item_get("reasoning", <<>>)]

\* _extract_decisions (597-638)
extract_decisions(response) ==
    LET Extracted(error, decisions) == [error |-> error, decisions |-> decisions]
        array_start == find(response, "[")
        array_end == find_matching_bracket(response, array_start)
        json_content == fix_missing_quotes(strip(slice(response, array_start, array_end + 1)))
        loaded == json_loads(json_content)
    IN  IF array_start = -1 THEN Extracted("no_array_start", <<>>)
        ELSE IF array_end = -1 THEN Extracted("no_array_end", <<>>)
        ELSE IF ~loaded.ok THEN Extracted("json_error", <<>>)
        ELSE Extracted("", [i \in 1..Len(loaded.items) |-> decision_from_item(loaded.items[i])])

\* the pieces responses are made of: a word, a blank, a lone bracket, a
\* bracketed note, and JSON arrays of objects: empty, of one object, of two,
\* of an object with "]" inside a string, with "[" inside a string, with a
\* typographic quote inside a string
Chunks ==
    [word |-> <<"t">>, blank |-> <<"_">>, open |-> <<"[">>, note |-> <<"[", "t", "]">>,
     array0 |-> <<"[", "]">>, array1 |-> <<"[", "O", "]">>,
     array2 |-> <<"[", "O", ",", "_", "P", "]">>,
     array_close_in_string |-> <<"[", "<", "]", "t", ">", "]">>,
     array_open_in_string |-> <<"[", "<", "[", ">", "]">>,
     array_quote_in_string |-> <<"[", "<", "q", ">", "]">>]

RECURSIVE text_of(_)
text_of(chunks) ==
    IF chunks = <<>> THEN <<>> ELSE Chunks[Head(chunks)] \o text_of(Tail(chunks))

Responses == SeqsUpTo(DOMAIN Chunks, MaxChunks)

InitParse ==
    /\ v_pc = "parse_input"
    /\ v_in \in [chunks : Responses]
    /\ v_out = [cot_trace |-> <<"none">>, error |-> "none", decisions |-> <<>>]
    /\ CIdle

\* _parse_full_decision_response 564-572: the trace, then the decisions
Parse ==
    /\ v_pc = "parse_input"
    /\ v_pc' = "parsed"
    /\ v_out' = [cot_trace |-> extract_cot_trace(text_of(v_in.chunks)),
                 error |-> extract_decisions(text_of(v_in.chunks)).error,
                 decisions |-> extract_decisions(text_of(v_in.chunks)).decisions]
    /\ UNCHANGED <<v_in, c_vars, l_vars>>

SpecParse == InitParse /\ [][Parse]_vars

\* ---------------------------------------------------------------------
\* get_full_decision on a response text and the record _run_cycle keeps of
\* it (engine.py 108-124, 562-581; auto_trader.py 271-310)
\* ---------------------------------------------------------------------

\* what get_full_decision ends with: it raised an exception whose message
\* holds the cause and the trace (571-572, 578-579), or it returned a
\* FullDecision
Raised(cause, detail, cot_trace) ==
    [raised |-> TRUE, message |-> [cause |-> cause, detail |-> detail,
                                   cot_trace |-> cot_trace],
     cot_trace |-> <<>>, decisions |-> <<>>]

FullDecision(cot_trace, decisions) ==
    [raised |-> FALSE, message |-> [cause |-> "", detail |-> "", cot_trace |-> <<>>],
     cot_trace |-> cot_trace, decisions |-> decisions]

\* _parse_full_decision_response (562-581): the FullDecision built in the
\* except blocks (571, 578) is a local that the raise discards
parse_full_decision_response(ai_response_text, account_equity, btc_eth_leverage, altcoin_leverage) ==
    LET cot_trace == extract_cot_trace(ai_response_text)
        extracted == extract_decisions(ai_response_text)
        validated == validate_decisions(extracted.decisions, account_equity,
                                        btc_eth_leverage, altcoin_leverage)
    IN  IF extracted.error # "" THEN Raised("extract", extracted.error, cot_trace)
        ELSE IF ~validated.ok THEN Raised("validate", validated.error, cot_trace)
        ELSE FullDecision(cot_trace, extracted.decisions)

\* get_full_decision (108-124) once the prompts are built: the AI call may
\* raise, its text is parsed
full_decision_of(call_ok, ai_response_text, account_equity) ==
    IF ~call_ok THEN Raised("call", "call_failed", <<>>)
    ELSE parse_full_decision_response(ai_response_text, account_equity,
                                      config_btc_eth_leverage, config_altcoin_leverage)

\* _run_cycle 271-310: in the except block the local decision is still
\* None, so the branch that would copy the trace and the decisions (277-285)
\* is not entered; after a return they are copied (304-310)
decision_record(fd) ==
    IF fd.raised
    THEN [success |-> FALSE,
          error_message |-> [stage |-> "get_full_decision", cause |-> fd.message],
          cot_trace |-> <<>>, decision_json |-> <<>>]
    ELSE [success |-> TRUE,
          error_message |-> [stage |-> "", cause |-> fd.message],
          cot_trace |-> fd.cot_trace, decision_json |-> fd.decisions]

InitRecord ==
    /\ v_pc = "record_input"
    /\ v_in \in [chunks : Responses, account_equity : {5, 1000}, call_ok : BOOLEAN]
    /\ v_out = decision_record(FullDecision(<<>>, <<>>))
    /\ CIdle

\* _run_cycle 271-310
RecordDecision ==
    /\ v_pc = "record_input"
    /\ v_pc' = "decision_recorded"
    /\ v_out' = decision_record(full_decision_of(v_in.call_ok, text_of(v_in.chunks),
                                                 v_in.account_equity))
    /\ UNCHANGED <<v_in, c_vars, l_vars>>

SpecRecord == InitRecord /\ [][RecordDecision]_vars

(***************************************************************************)
(* The threads of one agent.  TraderManager.start_all starts one daemon    *)
(* thread per call for the agent, which runs AutoTrader.run; stop_all      *)
(* calls AutoTrader.stop; main's signal_handler calls stop_all and then    *)
(* sys.exit(0), at which the interpreter ends and its daemon threads with  *)
(* it.  A cycle is followed as far as the threads matter: it raises or     *)
(* returns, and on its way it may have an order sequence in flight.        *)
(***************************************************************************)
InitLoop ==
    /\ LIdle
    /\ v_pc = "idle" /\ v_in = <<>> /\ v_out = <<>>
    /\ pc = "idle" /\ now = 1 /\ stop_until = 0 /\ call_count = 0
    /\ positions = {} /\ ctx = NoContext /\ market = NoMarket
    /\ ai_response = NoResponse
    /\ todo = <<>> /\ record = NewRecord /\ calls = <<>> /\ log = <<>>
    /\ stats_total_decisions = 0 /\ last_write_ok = FALSE

ProcessUp == main_pc # "exited"

LoopUnchanged == UNCHANGED <<v_vars, c_vars>>

\* a run() whose exception handler lets the failure of a cycle through
after_cycle_pc_propagating(raised) == IF raised THEN "raised" ELSE "after_cycle"

\* run 180-183 and 188-191: try: self._run_cycle() except Exception: the
\* loop goes on whether the cycle raised or returned
after_cycle_pc(raised) == "after_cycle"

\* TraderManager.start_all (93-109): a new thread for the agent, whether or
\* not an earlier one is still running
StartAll ==
    /\ ProcessUp
    /\ \E t \in Threads :
          /\ thread_pc[t] = "unstarted"
          /\ \A u \in Threads : u < t => thread_pc[u] # "unstarted"
          /\ thread_pc' = [thread_pc EXCEPT ![t] = "entered"]
    /\ UNCHANGED <<is_running, last_cycle, main_pc>>
    /\ LoopUnchanged

\* AutoTrader.run 171-181: the flag is set and the first cycle starts at once
RunBegin(t) ==
    /\ ProcessUp /\ thread_pc[t] = "entered"
    /\ is_running' = TRUE
    /\ thread_pc' = [thread_pc EXCEPT ![t] = "cycle"]
    /\ UNCHANGED <<last_cycle, main_pc>>
    /\ LoopUnchanged

\* _run_cycle raises (context build or get_full_decision failed) and run()
\* catches the exception
CycleRaises(t) ==
    /\ ProcessUp /\ thread_pc[t] = "cycle"
    /\ thread_pc' = [thread_pc EXCEPT ![t] = after_cycle_pc(TRUE)]
    /\ last_cycle' = [last_cycle EXCEPT ![t] = "failed"]
    /\ UNCHANGED <<is_running, main_pc>>
    /\ LoopUnchanged

\* _run_cycle returns without an order sequence under way
CycleReturns(t) ==
    /\ ProcessUp /\ thread_pc[t] = "cycle"
    /\ thread_pc' = [thread_pc EXCEPT ![t] = after_cycle_pc(FALSE)]
    /\ last_cycle' = [last_cycle EXCEPT ![t] = "ok"]
    /\ UNCHANGED <<is_running, main_pc>>
    /\ LoopUnchanged

\* _execute_open_long_with_record 641: trader.open_long has returned, the
\* stop-loss and the take-profit are still to be placed
PlaceOrder(t) ==
    /\ ProcessUp /\ thread_pc[t] = "cycle"
    /\ thread_pc' = [thread_pc EXCEPT ![t] = "ordering"]
    /\ UNCHANGED <<is_running, last_cycle, main_pc>>
    /\ LoopUnchanged

\* 657-665: set_stop_loss and set_take_profit have been placed or have
\* failed; the sequence is over
ProtectOrder(t) ==
    /\ ProcessUp /\ thread_pc[t] = "ordering"
    /\ thread_pc' = [thread_pc EXCEPT ![t] = "cycle"]
    /\ UNCHANGED <<is_running, last_cycle, main_pc>>
    /\ LoopUnchanged

\* run 186: while self.is_running
LoopTest(t) ==
    /\ ProcessUp /\ thread_pc[t] = "after_cycle"
    /\ thread_pc' = [thread_pc EXCEPT ![t] = IF is_running THEN "sleeping" ELSE "returned"]
    /\ UNCHANGED <<is_running, last_cycle, main_pc>>
    /\ LoopUnchanged

\* run 187-189: time.sleep is over and _run_cycle is called
Wake(t) ==
    /\ ProcessUp /\ thread_pc[t] = "sleeping"
    /\ thread_pc' = [thread_pc EXCEPT ![t] = "cycle"]
    /\ UNCHANGED <<is_running, last_cycle, main_pc>>
    /\ LoopUnchanged

\* AutoTrader.stop (193-196), called by TraderManager.stop_all
Stop ==
    /\ main_pc = "serving"
    /\ is_running' = FALSE
    /\ UNCHANGED <<thread_pc, last_cycle, main_pc>>
    /\ LoopUnchanged

\* main.signal_handler 129-133: SIGINT or SIGTERM arrives, stop_all is called
Signal ==
    /\ main_pc = "serving"
    /\ main_pc' = "handling"
    /\ is_running' = FALSE
    /\ UNCHANGED <<thread_pc, last_cycle>>
    /\ LoopUnchanged

\* main.signal_handler 136: sys.exit(0); the daemon threads stop where
\* they are
Exit ==
    /\ main_pc = "handling"
    /\ main_pc' = "exited"
    /\ UNCHANGED <<is_running, thread_pc, last_cycle>>
    /\ LoopUnchanged

ThreadStep(t) ==
    \/ RunBegin(t)
    \/ CycleRaises(t)
    \/ CycleReturns(t)
    \/ PlaceOrder(t)
    \/ ProtectOrder(t)
    \/ LoopTest(t)
    \/ Wake(t)

NextLoop ==
    \/ StartAll
    \/ \E t \in Threads : ThreadStep(t)
    \/ Stop
    \/ Signal
    \/ Exit

SpecLoop == InitLoop /\ [][NextLoop]_vars

\* every started thread keeps being scheduled and its sleep ends
SpecLoopFair == SpecLoop /\ \A t \in Threads : WF_vars(ThreadStep(t))

Init ==
    /\ pc = "idle"
    /\ now = 1
    /\ stop_until \in {0, 2}
    /\ call_count = 0
    /\ positions \in {{}, {<<"SOLUSDT", "long">>}, {<<"SOLUSDT", "short">>}}
    /\ ctx = NoContext
    /\ market = NoMarket
    /\ ai_response = NoResponse
    /\ todo = <<>>
    /\ record = NewRecord
    /\ calls = <<>>
    /\ log = <<>>
    /\ stats_total_decisions = 0
    /\ last_write_ok = FALSE
    /\ v_pc = "idle"
    /\ v_in = [decisions |-> <<>>, account_equity |-> 0,
               btc_eth_leverage |-> 0, altcoin_leverage |-> 0]
    /\ v_out = NoResult
    /\ LIdle

\* AutoTrader.run (178-196) with _run_cycle (198-373) as the repository has
\* them: a cycle is paused or ends where the context is built, and the
\* loop sleeps
Next ==
    \/ CycleRiskPaused
    \/ CycleContextFails
    \/ Sleep

Spec == Init /\ [][Next]_vars

\* ---------------------------------------------------------------------
\* One call of _run_cycle (auto_trader.py 198-373) as a function of what
\* the calls it makes come back with.  v_in: the clock and stop_until, the
\* positions of the exchange account, what _build_trading_context ended
\* with (built), what the exchange would answer for the market data of a
\* symbol, what the AI call produced, and whether the write to
\* decisions.jsonl succeeds.  v_out: the DecisionRecord, the trader calls
\* of the executors, the decisions still to be executed, the positions of
\* the account, the keys of ctx.market_data_map, the lines of the log, the
\* number of log_decision calls and whether the call raised.
\*
\* The builder of the repository raises at every call
\* (build_trading_context), so that in a run of the agent a call of
\* _run_cycle ends as RunCyclePaused or as RunCycleContextFails do, which
\* are the steps of Spec; the statements after the builder (236-373) are
\* given here for a Context handed to them.
\* ---------------------------------------------------------------------

\* the arguments.  built is an outcome of build_trading_context for the
\* account (get_balance or get_positions failed, or the Context(...) call
\* raised), or a Context of that account with SOL, or SOL and BTC, as the
\* candidates.  BTC and ETH are liquid and SOL has an open-interest value
\* of 15.00M or of 14.99M USD.
InitRunCycle ==
    LET Accounts == {{}, {<<"SOLUSDT", "long">>}, {<<"SOLUSDT", "short">>}}
        Reported(exch) ==
            { [symbol |-> p[1], side |-> p[2], entry_price |-> 100,
               mark_price |-> 100] : p \in exch }
        Failing(exch) ==
            { build_trading_context(
                  [balance_ok |-> b, equity |-> 1000, positions_ok |-> p,
                   reported |-> Reported(exch), pool_ok |-> TRUE,
                   performance_ok |-> TRUE]) : b \in BOOLEAN, p \in BOOLEAN }
        Contexts(exch) ==
            { Built("", <<Call("get_balance", ""), Call("get_positions", "")>>,
                    [candidate_coins |-> pool, positions |-> exch,
                     account_equity |-> 1000, market_data_map |-> {}]) :
                pool \in {{"SOLUSDT"}, {"BTCUSDT", "SOLUSDT"}} }
        Answers ==
            { [s \in {"BTCUSDT", "ETHUSDT", "SOLUSDT"} |->
                  IF s = "SOLUSDT" THEN MarketData(TRUE, TRUE, oi, 1)
                  ELSE MarketData(TRUE, TRUE, 90000000, 1)] :
                oi \in {14990000, 15000000} }
    IN  /\ v_pc = "run_cycle_input"
        /\ v_in \in UNION { [now : {1}, stop_until : {0, 2}, exchange : {exch},
                             built : Failing(exch) \cup Contexts(exch),
                             answers : Answers, resp : AIResponses,
                             write_ok : BOOLEAN] : exch \in Accounts }
        /\ v_out = [record |-> NewRecord, calls |-> <<>>, todo |-> <<>>,
                    positions |-> v_in.exchange, market_data_map |-> {},
                    lines |-> <<>>, total_decisions |-> 0, raised |-> FALSE]
        /\ CIdle

\* the end of _run_cycle on a path that logs the record and leaves, by
\* return or by raise
end_cycle(out, rec, write_ok, raised) ==
    [out EXCEPT !.record = rec,
                !.todo = <<>>,
                !.lines = log_decision(out.lines, rec, out.total_decisions, write_ok),
                !.total_decisions = @ + 1,
                !.raised = raised]

\* 198-218: time.time() < stop_until; the record of the paused call
\* carries the pause that is left and the call returns
RunCyclePaused ==
    /\ v_pc = "run_cycle_input"
    /\ risk_paused(v_in.now, v_in.stop_until)
    /\ v_pc' = "run_cycle_ended"
    /\ v_out' = end_cycle(v_out,
                          [FailedRecord("risk_pause")
                              EXCEPT !.remaining = v_in.stop_until - v_in.now],
                          v_in.write_ok, FALSE)
    /\ UNCHANGED <<v_in, c_vars, l_vars>>

\* 220-234: _build_trading_context raised; the failure is recorded and
\* raised again
RunCycleContextFails ==
    /\ v_pc = "run_cycle_input"
    /\ ~risk_paused(v_in.now, v_in.stop_until)
    /\ v_in.built.error # ""
    /\ v_pc' = "run_cycle_ended"
    /\ v_out' = end_cycle(v_out, FailedRecord("build_context"), v_in.write_ok, TRUE)
    /\ UNCHANGED <<v_in, c_vars, l_vars>>

\* 236-334, for the Context of v_in.built: get_full_decision is called,
\* which first fetches the market data (fetch_market_data_for_context);
\* when it raises the failure is recorded and raised again (276-301),
\* otherwise the decisions are sorted and the decision loop is entered
RunCycleDecides ==
    /\ v_pc = "run_cycle_input"
    /\ ~risk_paused(v_in.now, v_in.stop_until)
    /\ v_in.built.error = ""
    /\ LET context == v_in.built.context
           position_symbols == { p[1] : p \in context.positions }
           fetched == fetch_market_data_for_context(position_symbols,
                                                    context.candidate_coins,
                                                    v_in.answers)
           fd == get_full_decision(v_in.resp, context.account_equity)
           plan == decisions_to_execute(fd, context.account_equity)
           out == [v_out EXCEPT !.market_data_map = fetched]
       IN  IF fd.failed /\ plan = <<>>
           THEN /\ v_pc' = "run_cycle_ended"
                /\ v_out' = end_cycle(out, FailedRecord("get_full_decision"),
                                      v_in.write_ok, TRUE)
           ELSE /\ v_pc' = "run_cycle_executing"
                /\ v_out' = [out EXCEPT
                               !.record = IF fd.failed
                                          THEN FailedRecord("get_full_decision")
                                          ELSE NewRecord,
                               !.todo = plan]
    /\ UNCHANGED <<v_in, c_vars, l_vars>>

\* one pass of the decision loop (337-366), executed being what its try
\* block (348-364) ends with; env is what the outside world does during
\* the decision
RunCycleExecutes ==
    /\ v_pc = "run_cycle_executing" /\ v_out.todo # <<>>
    /\ \E env \in [positions_ok : BOOLEAN, market_ok : BOOLEAN, order_ok : BOOLEAN] :
          LET d == Head(v_out.todo)
              executed ==
                  IF /\ d.action \in {"open_long", "open_short"}
                     /\ ~is_candidate(v_in.built.context.candidate_coins, d.symbol)
                  THEN Outcome("not_candidate", <<>>, v_out.positions)
                  ELSE execute_decision_with_record(d, env, v_out.positions)
          IN  v_out' = [v_out EXCEPT
                          !.positions = executed.positions,
                          !.calls = @ \o executed.calls,
                          !.record.decisions = Append(@, action_record(d, executed)),
                          !.todo = remaining_after(@, executed)]
    /\ UNCHANGED <<v_pc, v_in, c_vars, l_vars>>

\* the loop is over: the record is saved and the call returns (368-373)
RunCycleSaves ==
    /\ v_pc = "run_cycle_executing" /\ v_out.todo = <<>>
    /\ v_pc' = "run_cycle_ended"
    /\ v_out' = end_cycle(v_out, v_out.record, v_in.write_ok, FALSE)
    /\ UNCHANGED <<v_in, c_vars, l_vars>>

SpecRunCycle == InitRunCycle /\ [][RunCyclePaused \/ RunCycleContextFails \/ RunCycleDecides \/ RunCycleExecutes \/ RunCycleSaves]_vars

\* ---------------------------------------------------------------------
\* _sort_decisions_by_priority applied to a list and again to its result
\* (auto_trader.py 963-983)
\* ---------------------------------------------------------------------

\* longest list that is sorted
MaxSort == 3

\* v_in: a list of decisions, among them two opens of the same priority,
\* closes, a hold and an action outside the vocabulary; v_out: the list
\* sorted once and sorted twice
InitSort ==
    LET SortDecisions ==
            { Decision("SOLUSDT", a, 3, 100, 90, 130) :
                a \in {"open_long", "open_short", "close_long", "hold", "bogus"} }
            \cup { Decision("BTCUSDT", "open_long", 3, 100, 90, 130) }
    IN  /\ v_pc = "sort_input"
        /\ v_in \in SeqsUpTo(SortDecisions, MaxSort)
        /\ v_out = [sorted |-> <<>>, resorted |-> <<>>]
        /\ CIdle

\* _run_cycle 329: sorted_decisions = self._sort_decisions_by_priority(..)
Sort ==
    /\ v_pc = "sort_input"
    /\ v_pc' = "sorted"
    /\ v_out' = [v_out EXCEPT !.sorted = sort_decisions_by_priority(v_in)]
    /\ UNCHANGED <<v_in, c_vars, l_vars>>

\* the function applied to the list it returned
SortAgain ==
    /\ v_pc = "sorted"
    /\ v_pc' = "resorted"
    /\ v_out' = [v_out EXCEPT !.resorted = sort_decisions_by_priority(v_out.sorted)]
    /\ UNCHANGED <<v_in, c_vars, l_vars>>

SpecSort == InitSort /\ [][Sort \/ SortAgain]_vars

\* ---------------------------------------------------------------------
\* The order methods of the adapters: HyperliquidTrader.open_long /
\* open_short / close_long / close_short / cancel_all_orders
\* (src/python/trader/hyperliquid_trader.py 73-373, 469-474) and
\* FuturesTrader.close_long / close_short
\* (src/backend/python/trader/binance_futures.py 34-64, 202-294)
\* ---------------------------------------------------------------------

\* a response that comes back without an exception and reports an error
\* or a rejection in its body
Rejected == [exc |-> "none", message |-> {"error"}]

\* one request to the exchange as the adapter sent it, and how it ended
Request(api, symbol, arg, outcome) ==
    [api |-> api, symbol |-> symbol, arg |-> arg, outcome |-> outcome]

\* what a method leaves: the requests in order, the warnings logged, its
\* result (<<"returned", status>> or <<"raised", where>>) and the orders
\* that still rest on the exchange
Traded(requests, warnings, result, resting) ==
    [requests |-> requests, warnings |-> warnings, result |-> result,
     resting |-> resting]

\* 469-474: the symbol without its USDT suffix
convert_symbol_to_hyperliquid(symbol) ==
    IF symbol = "SOLUSDT" THEN "SOL"
    ELSE IF symbol = "BTCUSDT" THEN "BTC"
    ELSE IF symbol = "ETHUSDT" THEN "ETH"
    ELSE symbol

\* an adapter that reports every position as a long
hyperliquid_get_positions_all_long(w) ==
    { [symbol |-> p.symbol, side |-> "long",
       position_amt |-> IF p.szi > 0 THEN p.szi ELSE -p.szi,
       entry_price |-> p.entry_price, mark_price |-> p.mark_price] : p \in w.positions }

\* hyperliquid_trader.py 73-131: side from the sign of szi, the amount
\* made positive
hyperliquid_get_positions(w) ==
    { [symbol |-> p.symbol, side |-> IF p.szi > 0 THEN "long" ELSE "short",
       position_amt |-> IF p.szi > 0 THEN p.szi ELSE -p.szi,
       entry_price |-> p.entry_price, mark_price |-> p.mark_price] : p \in w.positions }

\* binance_futures.py 34-64: side from the sign of positionAmt, the amount
\* kept signed
binance_get_positions(w) ==
    { [symbol |-> p.symbol, side |-> IF p.szi > 0 THEN "long" ELSE "short",
       position_amt |-> p.szi,
       entry_price |-> p.entry_price, mark_price |-> p.mark_price] : p \in w.positions }

\* a cancellation that stops after the first order of the coin
hyperliquid_cancel_all_orders_first_only(symbol, w) ==
    LET coin == convert_symbol_to_hyperliquid(symbol)
        mine == SelectSeq(w.resting, LAMBDA o : o.coin = coin)
        query == Request("open_orders", "", <<>>, Returned)
    IN  IF mine = <<>> THEN [requests |-> <<query>>, raised |-> FALSE, resting |-> w.resting]
        ELSE [requests |-> <<query, Request("cancel", symbol, <<mine[1].oid>>, Returned)>>,
              raised |-> FALSE,
              resting |-> SelectSeq(w.resting, LAMBDA o : o # mine[1])]

\* hyperliquid_trader.py 359-373: the open orders are asked for, then one
\* cancel per order of the coin, in the order of the list; what a cancel
\* returns is not read; the first exception ends the loop and is raised
hyperliquid_cancel_all_orders(symbol, w) ==
    LET coin == convert_symbol_to_hyperliquid(symbol)
        mine == SelectSeq(w.resting, LAMBDA o : o.coin = coin)
        raises == w.cancel.exc # "none"
        sent == IF raises /\ mine # <<>> THEN 1 ELSE Len(mine)
        query == Request("open_orders", "", <<>>,
                         IF w.open_orders_ok THEN Returned ELSE Disconnected)
        cancels == [i \in 1..sent |-> Request("cancel", symbol, <<mine[i].oid>>, w.cancel)]
    IN  IF ~w.open_orders_ok
        THEN [requests |-> <<query>>, raised |-> TRUE, resting |-> w.resting]
        ELSE [requests |-> <<query>> \o cancels,
              raised |-> raises /\ mine # <<>>,
              resting |-> IF w.cancel = Returned
                          THEN SelectSeq(w.resting, LAMBDA o : o.coin # coin)
                          ELSE w.resting]

\* hyperliquid_trader.py 147-194 / 196-243: the old orders are cancelled
\* (a failure is a warning), the leverage is set (133-145: always by a
\* request), the price is read (376-390), the quantity is rounded and the
\* rounding logged (165-166: _get_sz_decimals 476-488 is asked twice, and
\* each time it logs a warning when the meta read at construction has no
\* entry for the coin, w.listed FALSE), and the order is sent; what
\* exchange.order returns is not read
hyperliquid_open(side, symbol, quantity, leverage, w) ==
    LET c == hyperliquid_cancel_all_orders(symbol, w)
        warned == IF c.raised THEN <<"cancel_all_orders failed">> ELSE <<>>
        sized == IF w.listed THEN warned
                 ELSE warned \o <<"get_sz_decimals not found", "get_sz_decimals not found">>
        r1 == Append(c.requests, Request("update_leverage", symbol, <<leverage>>, w.leverage))
        r2 == Append(r1, Request("all_mids", "", <<>>,
                                 IF w.price_ok THEN Returned ELSE Disconnected))
        r3 == Append(r2, Request("order", symbol,
                                 <<IF side = "long" THEN "BUY" ELSE "SELL", "open", quantity>>,
                                 w.order))
    IN  IF w.leverage.exc # "none"
        THEN Traded(r1, warned, <<"raised", "set_leverage">>, c.resting)
        ELSE IF ~w.price_ok
        THEN Traded(r2, warned, <<"raised", "get_market_price">>, c.resting)
        ELSE IF w.order.exc # "none"
        THEN Traded(r3, sized, <<"raised", "order">>, c.resting)
        ELSE Traded(r3, sized, <<"returned", "FILLED">>, c.resting)

\* hyperliquid_trader.py 245-300 / 302-357: a quantity of 0 is replaced by
\* the amount of the position of the symbol and side (none: an exception
\* before any order), the price is read, the quantity is rounded and the
\* rounding logged (265-266, two warnings of _get_sz_decimals when the
\* meta has no entry for the coin), the reduce-only order is sent and
\* what it returns is not read, then the orders of the symbol are
\* cancelled, a failure being a warning
hyperliquid_close(side, symbol, quantity, w) ==
    LET sized == IF w.listed THEN <<>>
                 ELSE <<"get_sz_decimals not found", "get_sz_decimals not found">>
        found == { p \in hyperliquid_get_positions(w) : p.symbol = symbol /\ p.side = side }
        looked == quantity = 0
        q == IF ~looked THEN quantity
             ELSE IF found = {} THEN 0
             ELSE (CHOOSE p \in found : TRUE).position_amt
        r0 == IF looked
              THEN <<Request("user_state", "", <<>>,
                             IF w.positions_ok THEN Returned ELSE Disconnected)>>
              ELSE <<>>
        r1 == Append(r0, Request("all_mids", "", <<>>,
                                 IF w.price_ok THEN Returned ELSE Disconnected))
        r2 == Append(r1, Request("order", symbol,
                                 <<IF side = "long" THEN "SELL" ELSE "BUY", "reduce_only", q>>,
                                 w.order))
        c == hyperliquid_cancel_all_orders(symbol, w)
    IN  IF looked /\ ~w.positions_ok
        THEN Traded(r0, <<>>, <<"raised", "get_positions">>, w.resting)
        ELSE IF q = 0 THEN Traded(r0, <<>>, <<"raised", "not_found">>, w.resting)
        ELSE IF ~w.price_ok
        THEN Traded(r1, <<>>, <<"raised", "get_market_price">>, w.resting)
        ELSE IF w.order.exc # "none"
        THEN Traded(r2, sized, <<"raised", "order">>, w.resting)
        ELSE Traded(r2 \o c.requests,
                    IF c.raised THEN Append(sized, "cancel_all_orders failed") ELSE sized,
                    <<"returned", "FILLED">>, c.resting)

\* binance_futures.py 202-243 / 245-286 with cancel_all_orders (288-294):
\* a quantity of 0 is replaced by the amount of the position of the symbol
\* and side (the amount of a short is negative and its sign is turned),
\* none: an exception before any order; the quantity is formatted
\* (_format_quantity 413-421) with the decimals that the exchange
\* information gives for the symbol (_get_symbol_precision 359-376), with 3
\* when that request raises or its answer has no LOT_SIZE step for the
\* symbol (w.listed FALSE); a BinanceAPIException of the request (375) and
\* the missing step (372) are logged as warnings, any other exception is
\* passed over without a word (419); the market order SELL/LONG or BUY/SHORT, whose
\* arguments are evaluated first, an undefined POSITION_SIDE_LONG /
\* POSITION_SIDE_SHORT raising NameError before anything is sent; then one
\* futures_cancel_all_orders for the symbol, a failure being a warning; the
\* status of the result is the status of the answer.  The quantity of the
\* order is the text of q with so many decimals: <<.., q, decimals>>.
binance_close(side, symbol, quantity, w) ==
    LET found == { p \in binance_get_positions(w) : p.symbol = symbol /\ p.side = side }
        looked == quantity = 0
        q == IF ~looked THEN quantity
             ELSE IF found = {} THEN 0
             ELSE IF side = "long" THEN (CHOOSE p \in found : TRUE).position_amt
             ELSE -(CHOOSE p \in found : TRUE).position_amt
        r0 == IF looked
              THEN <<Request("futures_position_information", "", <<>>,
                             IF w.positions_ok THEN Returned
                             ELSE APIError({"Service unavailable"}))>>
              ELSE <<>>
        decimals == IF w.info = Returned /\ w.listed THEN w.lot_decimals ELSE 3
        noted == IF w.info.exc = "BinanceAPIException"
                 THEN <<"get_symbol_precision failed">>
                 ELSE IF w.info = Returned /\ ~w.listed
                 THEN <<"get_symbol_precision not found">>
                 ELSE <<>>
        rf == Append(r0, Request("futures_exchange_info", "", <<>>, w.info))
        r1 == Append(rf, Request("futures_create_order", symbol,
                                 IF side = "long" THEN <<"SELL", "LONG", q, decimals>>
                                 ELSE <<"BUY", "SHORT", q, decimals>>,
                                 w.order))
        r2 == Append(r1, Request("futures_cancel_all_orders", symbol, <<>>, w.cancel))
    IN  IF looked /\ ~w.positions_ok
        THEN Traded(r0, <<>>, <<"raised", "get_positions">>, w.resting)
        ELSE IF q = 0 THEN Traded(r0, <<>>, <<"raised", "not_found">>, w.resting)
        ELSE IF ~w.position_side_defined
        THEN Traded(rf, noted, <<"raised", "NameError">>, w.resting)
        ELSE IF w.order.exc # "none"
        THEN Traded(r1, noted, <<"raised", "order">>, w.resting)
        ELSE Traded(r2,
                    IF w.cancel.exc # "none"
                    THEN Append(noted, "cancel_all_orders failed") ELSE noted,
                    <<"returned", IF w.order = Returned THEN "NEW" ELSE "REJECTED">>,
                    IF w.cancel = Returned
                    THEN SelectSeq(w.resting,
                                   LAMBDA o : o.coin # convert_symbol_to_hyperliquid(symbol))
                    ELSE w.resting)

\* hyperliquid_trader.py 399-432 / 434-467: one reduce-only trigger order,
\* tpsl "sl" or "tp", a buy for a SHORT and a sell for a LONG, at the given
\* price; the quantity is rounded first (407 / 442, one warning of
\* _get_sz_decimals when the meta has no entry for the coin); what
\* exchange.order returns is not read, whatever it raises is raised
\* again.  An order that the exchange accepted rests.
hyperliquid_protect(method, position_side, symbol, quantity, price, w) ==
    LET sized == IF w.listed THEN <<>> ELSE <<"get_sz_decimals not found">>
        r1 == <<Request("order", symbol,
                        <<IF position_side = "SHORT" THEN "BUY" ELSE "SELL",
                          IF method = "set_stop_loss" THEN "sl" ELSE "tp", quantity, price>>,
                        w.order)>>
    IN  IF w.order.exc # "none"
        THEN Traded(r1, sized, <<"raised", "order">>, w.resting)
        ELSE Traded(r1, sized, <<"returned", "none">>,
                    IF w.order = Returned
                    THEN Append(w.resting, [coin |-> convert_symbol_to_hyperliquid(symbol),
                                            oid |-> Len(w.resting) + 4])
                    ELSE w.resting)

\* binance_futures.py 311-333 / 335-357: the side of the order and the
\* position side are named first (313-314 / 337-338), where an undefined
\* POSITION_SIDE_LONG / POSITION_SIDE_SHORT raises NameError before any
\* request; the quantity is formatted as in a close, with the same
\* warnings (372, 375); then one
\* futures_create_order of type STOP_MARKET or TAKE_PROFIT_MARKET with the
\* price as stopPrice, a SELL for a LONG and a BUY for a SHORT.  An order
\* that the exchange accepted rests.
binance_protect(method, position_side, symbol, quantity, price, w) ==
    LET decimals == IF w.info = Returned /\ w.listed THEN w.lot_decimals ELSE 3
        noted == IF w.info.exc = "BinanceAPIException"
                 THEN <<"get_symbol_precision failed">>
                 ELSE IF w.info = Returned /\ ~w.listed
                 THEN <<"get_symbol_precision not found">>
                 ELSE <<>>
        rf == <<Request("futures_exchange_info", "", <<>>, w.info)>>
        r1 == Append(rf, Request("futures_create_order", symbol,
                                 <<IF position_side = "LONG" THEN "SELL" ELSE "BUY",
                                   IF position_side = "LONG" THEN "LONG" ELSE "SHORT",
                                   quantity, decimals,
                                   IF method = "set_stop_loss" THEN "STOP_MARKET"
                                   ELSE "TAKE_PROFIT_MARKET", price>>,
                                 w.order))
    IN  IF ~w.position_side_defined
        THEN Traded(<<>>, <<>>, <<"raised", "NameError">>, w.resting)
        ELSE IF w.order.exc # "none"
        THEN Traded(r1, noted, <<"raised", "order">>, w.resting)
        ELSE Traded(r1, noted, <<"returned", "none">>,
                    IF w.order = Returned
                    THEN Append(w.resting, [coin |-> convert_symbol_to_hyperliquid(symbol),
                                            oid |-> Len(w.resting) + 4])
                    ELSE w.resting)

\* v_in: the adapter, the method and its arguments, and the exchange: its
\* positions (szi: the signed size, with entry and mark price), the leverage the symbol has, the
\* orders that rest (by coin and order id), the answers to the position,
\* price and open-order queries, and the outcomes of the leverage request,
\* of the order and of a cancel; for Binance the outcome of the
\* exchange-information request, the decimals its LOT_SIZE step gives the
\* symbol, and whether the installed binance.enums defines
\* POSITION_SIDE_LONG / POSITION_SIDE_SHORT; listed: whether the symbol
\* has a quantity step in what the exchange tells of its symbols (Binance:
\* the answer to the exchange-information request, Hyperliquid: the meta
\* read at construction, which may also be empty); the timestamps of the
\* agent before the call
InitAdapter ==
    LET AdapterTimestamps ==
            [last_enter_time |-> 3, last_stop_time |-> 4, last_take_profit_time |-> 5,
             first_seen |-> {}]
        Position(symbol, szi) ==
            [symbol |-> symbol, szi |-> szi, entry_price |-> 100, mark_price |-> 102]
        Sol(szi) == Position("SOLUSDT", szi)
        Order(coin, oid) == [coin |-> coin, oid |-> oid]
        Worlds ==
            [positions : {{}, {Sol(2)}, {Sol(-3)}, {Sol(2), Sol(-3)},
                          {Position("BTCUSDT", 1)}},
             current_leverage : {3},
             resting : {<<>>, <<Order("SOL", 1)>>, <<Order("SOL", 1), Order("SOL", 2)>>,
                        <<Order("BTC", 3), Order("SOL", 1)>>, <<Order("BTC", 3)>>},
             positions_ok : BOOLEAN, price_ok : BOOLEAN, open_orders_ok : BOOLEAN,
             leverage : {Returned, Disconnected},
             order : {Returned, Rejected, APIError({"Margin is insufficient"}), Disconnected},
             cancel : {Returned, Rejected, APIError({"Unknown order"}), Disconnected},
             info : {Returned, APIError({"Service unavailable"}), Disconnected},
             lot_decimals : {1}, listed : BOOLEAN, position_side_defined : BOOLEAN]
        Calls == [adapter : {"binance", "hyperliquid"},
                  method : {"open_long", "open_short", "close_long", "close_short",
                            "set_stop_loss", "set_take_profit"},
                  position_side : {"LONG", "SHORT"},
                  symbol : {"SOLUSDT"}, quantity : {0, 2}, leverage : OpenLeverages,
                  world : Worlds, timestamps : {AdapterTimestamps}]
        Protective(c) ==
            /\ c.method \in {"set_stop_loss", "set_take_profit"}
            /\ c.quantity = 2 /\ c.leverage = 3 /\ c.world.positions = {Sol(2)}
            /\ c.world.positions_ok /\ c.world.price_ok /\ c.world.open_orders_ok
            /\ c.world.leverage = Returned /\ c.world.cancel = Returned
            /\ c.adapter = "hyperliquid"
                  => (c.world.info = Returned /\ c.world.position_side_defined)
    IN  /\ v_pc = "adapter_input"
        /\ v_in \in { c \in Calls :
                        /\ c.world.listed \/ c.world.info = Returned
                        /\ \/ Protective(c)
                           \/ /\ c.adapter = "hyperliquid" /\ c.position_side = "LONG"
                              /\ c.method \in {"open_long", "open_short", "close_long",
                                               "close_short"}
                              /\ c.world.info = Returned /\ c.world.position_side_defined
                           \/ /\ c.adapter = "binance" /\ c.position_side = "LONG"
                              /\ c.method \in {"close_long", "close_short"}
                              /\ c.world.cancel # Rejected /\ c.world.price_ok
                              /\ c.world.open_orders_ok /\ c.world.leverage = Returned }
        /\ v_out = [trade |-> Traded(<<>>, <<>>, <<"none">>, <<>>),
                    executed |-> Executed("none", <<>>, <<>>, AdapterTimestamps)]
        /\ CIdle

\* one call of an order method, the stop-loss at 90 and the take-profit at
\* 130; a close that is called with quantity 0 is the call of the executor
\* (auto_trader.py 715-803), which reads the positions before it (727 /
\* 772: when that read fails the executor raises and the adapter's close
\* is never called, so that nothing is requested of the order method and
\* the orders rest as they did) and sets a timestamp after it
Trade ==
    /\ v_pc = "adapter_input"
    /\ v_pc' = "traded"
    /\ LET side == IF v_in.method \in {"open_long", "close_long"} THEN "long" ELSE "short"
           w == v_in.world
           closing == v_in.method \in {"close_long", "close_short"}
           price == IF v_in.method = "set_stop_loss" THEN 90 ELSE 130
           unread == closing /\ v_in.quantity = 0 /\ ~w.positions_ok
           trade == IF unread THEN Traded(<<>>, <<>>, <<"none">>, w.resting)
                    ELSE IF v_in.method \in {"set_stop_loss", "set_take_profit"}
                    THEN IF v_in.adapter = "hyperliquid"
                         THEN hyperliquid_protect(v_in.method, v_in.position_side,
                                                  v_in.symbol, v_in.quantity, price, w)
                         ELSE binance_protect(v_in.method, v_in.position_side,
                                              v_in.symbol, v_in.quantity, price, w)
                    ELSE IF ~closing
                    THEN hyperliquid_open(side, v_in.symbol, v_in.quantity, v_in.leverage, w)
                    ELSE IF v_in.adapter = "hyperliquid"
                    THEN hyperliquid_close(side, v_in.symbol, v_in.quantity, w)
                    ELSE binance_close(side, v_in.symbol, v_in.quantity, w)
           seen == [market_ok |-> TRUE, positions_ok |-> w.positions_ok,
                    reported |-> IF v_in.adapter = "hyperliquid"
                                 THEN hyperliquid_get_positions(w)
                                 ELSE binance_get_positions(w),
                    order_ok |-> trade.result[1] = "returned"]
       IN  v_out' = [trade |-> trade,
                     executed |-> IF closing /\ v_in.quantity = 0
                                  THEN close_with_record(
                                           Decision(v_in.symbol, v_in.method, v_in.leverage,
                                                    100, 90, 130),
                                           side, seen, v_in.timestamps, ExecuteTime)
                                  ELSE v_out.executed]
    /\ UNCHANGED <<v_in, c_vars, l_vars>>

SpecAdapter == InitAdapter /\ [][Trade]_vars

\* ---------------------------------------------------------------------
\* last_enter_time, last_stop_time and last_take_profit_time from cycle to
\* cycle: _restore_trading_state_from_logs (auto_trader.py 577-598), the
\* copy into the record (262-267) and the executors (655, 703, 754-757,
\* 799-802); a time is a number, 0 stands for the empty string
\* ---------------------------------------------------------------------

\* cycles that are run one after the other
MaxRestoreCycles == 3

\* the fields as DecisionRecord() has them (decision_logger.py 63-65)
NoTimestamps ==
    [last_enter_time |-> 0, last_stop_time |-> 0, last_take_profit_time |-> 0]

\* 577-598 with get_latest_records(1) (decision_logger.py 152-176): the
\* three fields of the last line of the log, when there is one
restore_trading_state_from_logs(timestamps, records) ==
    IF records = <<>> THEN timestamps ELSE records[Len(records)]

\* v_in.records: the log the process starts with; v_out: the timestamps
\* of the agent (104-108), the log, and what each cycle so far did
InitCooldown ==
    /\ v_pc = "cooldown_cycles"
    /\ v_in \in [records : {<<>>, <<[last_enter_time |-> 5, last_stop_time |-> 0,
                                     last_take_profit_time |-> 6]>>}]
    /\ v_out = [timestamps |-> NoTimestamps, records |-> v_in.records, cycles |-> <<>>]
    /\ CIdle

\* one _run_cycle (198-373) as far as the timestamps go.  A risk-paused
\* cycle logs a fresh record (211-218); every other cycle restores at the
\* start of _build_trading_context (381), and logs a fresh record when the
\* context fails (227-234); otherwise the record takes the timestamps
\* (263-265) before the decisions run, the executors set the timestamps
\* in set to the time of the cycle, and the record is logged (292-301,
\* 366-373).  log_decision may fail to write the line
\* (decision_logger.py 141-150).
CooldownCycle ==
    /\ v_pc = "cooldown_cycles"
    /\ Len(v_out.cycles) < MaxRestoreCycles
    /\ \E stage \in {"risk_paused", "context_failed", "decision_failed", "executed"},
          set \in SUBSET DOMAIN NoTimestamps, write_ok \in BOOLEAN :
          /\ stage # "executed" => set = {}
          /\ LET t == 10 + Len(v_out.cycles)
                 restored == IF stage = "risk_paused" THEN v_out.timestamps
                             ELSE restore_trading_state_from_logs(v_out.timestamps,
                                                                  v_out.records)
                 after == [f \in DOMAIN NoTimestamps |->
                              IF f \in set THEN t ELSE restored[f]]
                 logged == IF stage \in {"risk_paused", "context_failed"}
                           THEN NoTimestamps ELSE restored
             IN  v_out' = [timestamps |-> after,
                           records |-> IF write_ok THEN Append(v_out.records, logged)
                                       ELSE v_out.records,
                           cycles |-> Append(v_out.cycles,
                                             [stage |-> stage, set |-> set,
                                              before |-> v_out.timestamps,
                                              context |-> restored, after |-> after])]
    /\ UNCHANGED <<v_pc, v_in, c_vars, l_vars>>

SpecCooldown == InitCooldown /\ [][CooldownCycle]_vars

\* ---------------------------------------------------------------------
\* position_first_seen_time from cycle to cycle of the agent: the tracking
\* and the purge of _build_trading_context (auto_trader.py 400-456); a key
\* is the pair of symbol and side.  The entry that an executor makes after
\* an open (649-651, 697-699) is made in no cycle, as no cycle gets past
\* the builder (build_trading_context).
\* ---------------------------------------------------------------------

\* cycles that are run one after the other
MaxBuilds == 4

\* a builder that tracks the new positions and forgets none
track_first_seen_no_purge(first_seen, reported, t) ==
    LET loop[i \in 0..Len(reported)] ==
            IF i = 0 THEN [first_seen |-> first_seen, error |-> ""]
            ELSE LET pos_key == <<reported[i].symbol, reported[i].side>>
                 IN  IF loop[i - 1].error # "" THEN loop[i - 1]
                     ELSE IF reported[i].entry_price = 0
                     THEN [loop[i - 1] EXCEPT !.error = "ZeroDivisionError"]
                     ELSE [loop[i - 1] EXCEPT !.first_seen =
                              [k \in DOMAIN @ \cup {pos_key} |->
                                  IF k \in DOMAIN @ THEN @[k] ELSE t]]
    IN  loop[Len(reported)]

\* 400-456.  loop[i] is position_first_seen_time after the first i
\* positions of the loop (403-448), taken in the order get_positions gave
\* them: the profit percentage divides by entry_price (415-419) before the
\* key of the position is tracked, so that a position with entry price 0
\* ends the builder with the positions before it tracked; a key that is
\* not tracked yet gets the time t (429-434).  After a loop that went
\* through, the keys that were not reported are deleted (450-456).
track_first_seen(first_seen, reported, t) ==
    LET loop[i \in 0..Len(reported)] ==
            IF i = 0 THEN [first_seen |-> first_seen, error |-> ""]
            ELSE LET pos_key == <<reported[i].symbol, reported[i].side>>
                 IN  IF loop[i - 1].error # "" THEN loop[i - 1]
                     ELSE IF reported[i].entry_price = 0
                     THEN [loop[i - 1] EXCEPT !.error = "ZeroDivisionError"]
                     ELSE [loop[i - 1] EXCEPT !.first_seen =
                              [k \in DOMAIN @ \cup {pos_key} |->
                                  IF k \in DOMAIN @ THEN @[k] ELSE t]]
        tracked == loop[Len(reported)]
        current_position_keys ==
            { <<reported[i].symbol, reported[i].side>> : i \in DOMAIN reported }
    IN  IF tracked.error # "" THEN tracked
        ELSE [first_seen |-> [k \in DOMAIN tracked.first_seen \cap current_position_keys |->
                                 tracked.first_seen[k]],
              error |-> ""]

\* v_in: the symbol the account trades; v_out: position_first_seen_time
\* (empty at construction, 103) and what each cycle so far did
InitFirstSeen ==
    /\ v_pc = "first_seen_cycles"
    /\ v_in \in [symbol : {"SOLUSDT"}]
    /\ v_out = [first_seen |-> <<>>, cycles |-> <<>>]
    /\ CIdle

\* one _run_cycle (198-234) as far as position_first_seen_time goes, at
\* the time t.  A risk-paused cycle (211-218) and a cycle whose get_balance
\* or get_positions raises (384, 395) leave it alone.  Otherwise
\* get_positions answers with reported, a list of positions of distinct
\* keys, each with an entry price of 100 or, at most one of them, of 0:
\* the positions are tracked (track_first_seen), and the builder raises
\* all the same, in the loop ("zero_division") or after the purge
\* ("context_failed": the coin pool or the Context(...) call).  The
\* account's positions change between the cycles as the exchange and its
\* owner have it.
FirstSeenCycle ==
    /\ v_pc = "first_seen_cycles"
    /\ Len(v_out.cycles) < MaxBuilds
    /\ \E world \in {"risk_paused", "balance_failed", "positions_failed", "answered"},
          sides \in SeqsUpTo({"long", "short"}, 2), zero \in 0..2 :
          /\ world # "answered" => (sides = <<>> /\ zero = 0)
          /\ zero <= Len(sides)
          /\ \A i, j \in DOMAIN sides : i # j => sides[i] # sides[j]
          /\ LET t == 100 + 10 * Len(v_out.cycles)
                 reported == [i \in DOMAIN sides |->
                                 [symbol |-> v_in.symbol, side |-> sides[i],
                                  entry_price |-> IF i = zero THEN 0 ELSE 100]]
                 tracked == IF world = "answered"
                            THEN track_first_seen(v_out.first_seen, reported, t)
                            ELSE [first_seen |-> v_out.first_seen, error |-> world]
                 stage == IF world # "answered" THEN world
                          ELSE IF tracked.error # "" THEN "zero_division"
                          ELSE "context_failed"
             IN  v_out' = [first_seen |-> tracked.first_seen,
                           cycles |-> Append(v_out.cycles,
                                             [stage |-> stage, reported |-> reported,
                                              t |-> t,
                                              after |-> tracked.first_seen])]
    /\ UNCHANGED <<v_pc, v_in, c_vars, l_vars>>

SpecFirstSeen == InitFirstSeen /\ [][FirstSeenCycle]_vars

(***************************************************************************)
(* The validation rules as the specification words them, one predicate per *)
(* rule, used by the properties below.                                     *)
(***************************************************************************)
SixActions ==
    {"open_long", "open_short", "close_long", "close_short", "hold", "wait"}

IsOpen(d) == d.action = "open_long" \/ d.action = "open_short"

LeverageCap(d, inp) ==
    IF d.symbol = "BTCUSDT" \/ d.symbol = "ETHUSDT"
    THEN inp.btc_eth_leverage ELSE inp.altcoin_leverage

\* position_size_usd <= max_position_value * 1.01, in hundredths,
\* max_position_value = equity * 10 or equity * 3 / 2
SizeWithinCap(d, inp) ==
    IF d.symbol = "BTCUSDT" \/ d.symbol = "ETHUSDT"
    THEN d.position_size_usd * 100 <= inp.account_equity * 10 * 101
    ELSE d.position_size_usd * 100 * 2 <= inp.account_equity * 3 * 101

\* reward : risk >= 3 from the entry assumed one fifth of the way from the
\* stop to the target: entry = (4 * stop + target) / 5
RewardRiskAtLeast3(d) ==
    LET e5 == 4 * d.stop_loss + d.take_profit
        risk == IF d.action = "open_long" THEN e5 - 5 * d.stop_loss
                ELSE 5 * d.stop_loss - e5
        reward == IF d.action = "open_long" THEN 5 * d.take_profit - e5
                  ELSE e5 - 5 * d.take_profit
    IN  risk > 0 /\ reward >= 3 * risk

RuleOrder ==
    <<"invalid_action", "leverage", "size_nonpositive", "size_cap",
      "stop_target_nonpositive", "direction", "reward_risk">>

Violates(rule, d, inp) ==
    CASE rule = "invalid_action" -> d.action \notin SixActions
      [] rule = "leverage" ->
            IsOpen(d) /\ (d.leverage <= 0 \/ d.leverage > LeverageCap(d, inp))
      [] rule = "size_nonpositive" -> IsOpen(d) /\ d.position_size_usd <= 0
      [] rule = "size_cap" -> IsOpen(d) /\ ~SizeWithinCap(d, inp)
      [] rule = "stop_target_nonpositive" ->
            IsOpen(d) /\ (d.stop_loss <= 0 \/ d.take_profit <= 0)
      [] rule = "direction" ->
            IsOpen(d) /\ (IF d.action = "open_long"
                          THEN ~(d.stop_loss < d.take_profit)
                          ELSE ~(d.stop_loss > d.take_profit))
      [] rule = "reward_risk" -> IsOpen(d) /\ ~RewardRiskAtLeast3(d)

ViolatedRules(d, inp) ==
    { k \in 1..Len(RuleOrder) : Violates(RuleOrder[k], d, inp) }

Min(S) == CHOOSE x \in S : \A y \in S : x <= y

\* C6: a batch that _validate_decisions accepts holds only known actions,
\* and each of its opens has leverage in (0, cap], size in
\* (0, max_position_value * 1.01], positive stop and target, and the stop on
\* the losing side of the target.
C6_AcceptedBatchWithinLimits ==
    (v_pc = "done" /\ v_out.ok) =>
        \A i \in 1..Len(v_in.decisions) :
            LET d == v_in.decisions[i]
            IN  /\ d.action \in SixActions
                /\ IsOpen(d) =>
                     /\ 0 < d.leverage /\ d.leverage <= LeverageCap(d, v_in)
                     /\ 0 < d.position_size_usd /\ SizeWithinCap(d, v_in)
                     /\ d.stop_loss > 0 /\ d.take_profit > 0
                     /\ d.action = "open_long" => d.stop_loss < d.take_profit
                     /\ d.action = "open_short" => d.stop_loss > d.take_profit

\* an accepted open at the leverage cap of an altcoin where the caps differ
C6_Witness ==
    /\ v_pc = "done" /\ v_out.ok
    /\ v_in.btc_eth_leverage # v_in.altcoin_leverage
    /\ \E i \in 1..Len(v_in.decisions) :
          /\ IsOpen(v_in.decisions[i])
          /\ v_in.decisions[i].symbol = "SOLUSDT"
          /\ v_in.decisions[i].leverage = v_in.altcoin_leverage

\* C7 (as claimed): with equity 1000 and both caps 10, open_long ETHUSDT with
\* leverage 10, size 1400, stop 3000 is rejected with the reward:risk error
\* when the target is 3150 and accepted when the target is 3300.
C7_RewardRiskExample ==
    \A tp \in {3150, 3300} :
        ( /\ v_pc = "done"
          /\ v_in = [decisions |-> <<Decision("ETHUSDT", "open_long", 10, 1400, 3000, tp)>>,
                     account_equity |-> 1000,
                     btc_eth_leverage |-> 10, altcoin_leverage |-> 10] )
        => IF tp = 3150
           THEN ~v_out.ok /\ v_out.error = "reward_risk"
           ELSE v_out.ok

WellFormedOpenLong(d, inp) ==
    /\ d.action = "open_long"
    /\ 0 < d.stop_loss /\ 0 < d.take_profit /\ d.stop_loss < d.take_profit
    /\ 0 < d.leverage /\ d.leverage <= LeverageCap(d, inp)
    /\ 0 < d.position_size_usd /\ SizeWithinCap(d, inp)
    /\ RewardRiskAtLeast3(d)

\* C8: a batch of open_long decisions is accepted exactly when every one of
\* them is well formed: each bound met gives acceptance, any one bound
\* broken on one decision gives rejection.
C8_WellFormedOpenLongsAccepted ==
    ( /\ v_pc = "done"
      /\ \A i \in 1..Len(v_in.decisions) : v_in.decisions[i].action = "open_long" )
    => ( v_out.ok <=>
           \A i \in 1..Len(v_in.decisions) : WellFormedOpenLong(v_in.decisions[i], v_in) )

\* an accepted open_long whose size lies inside the 1% tolerance, above
\* max_position_value itself
C8_Witness ==
    /\ v_pc = "done" /\ v_out.ok
    /\ Len(v_in.decisions) >= 1
    /\ \A i \in 1..Len(v_in.decisions) : v_in.decisions[i].action = "open_long"
    /\ \E i \in 1..Len(v_in.decisions) :
          /\ v_in.decisions[i].symbol = "SOLUSDT"
          /\ v_in.decisions[i].position_size_usd * 2 > v_in.account_equity * 3

\* C9: validation stops at the first decision, in input order, that breaks
\* a rule and reports the first rule it breaks in the order action name,
\* leverage, size > 0, size cap, stop/target positivity, direction,
\* reward:risk; nothing of the later decisions enters the result.
C9_FailFast ==
    v_pc = "done" =>
        LET bad == { i \in 1..Len(v_in.decisions) :
                        ViolatedRules(v_in.decisions[i], v_in) # {} }
        IN  IF bad = {} THEN v_out.ok
            ELSE /\ ~v_out.ok
                 /\ v_out.index = Min(bad)
                 /\ v_out.error =
                      RuleOrder[Min(ViolatedRules(v_in.decisions[Min(bad)], v_in))]

\* a batch whose first decision breaks two rules and whose second breaks
\* another one
C9_Witness ==
    /\ v_pc = "done" /\ ~v_out.ok
    /\ Len(v_in.decisions) >= 2
    /\ Cardinality(ViolatedRules(v_in.decisions[1], v_in)) >= 2
    /\ ViolatedRules(v_in.decisions[2], v_in) # {}
    /\ ViolatedRules(v_in.decisions[2], v_in) # ViolatedRules(v_in.decisions[1], v_in)
    /\ v_out.index = 1

(***************************************************************************)
(* Properties of one call of _run_cycle (SpecRunCycle).                    *)
(***************************************************************************)
OrderOps == {"open_long", "open_short", "close_long", "close_short",
             "set_stop_loss", "set_take_profit"}

\* the call has got as far as get_full_decision
InCycle ==
    /\ v_pc \in {"run_cycle_executing", "run_cycle_ended"}
    /\ v_in.now >= v_in.stop_until
    /\ v_in.built.error = ""

\* the AI call failed, the response could not be parsed, or a decision of
\* the parsed batch breaks a validation rule
DecisionFailed ==
    \/ v_in.resp.kind \in {"call_failed", "malformed"}
    \/ /\ v_in.resp.kind = "batch"
       /\ \E i \in DOMAIN v_in.resp.decisions :
             ViolatedRules(v_in.resp.decisions[i],
                           [account_equity |-> v_in.built.context.account_equity,
                            btc_eth_leverage |-> config_btc_eth_leverage,
                            altcoin_leverage |-> config_altcoin_leverage]) # {}

\* C1: in a cycle whose get_full_decision fails (AI call, parsing or the
\* validation of any decision of the batch) no order-affecting trader call
\* is made for any decision of the batch, not even for the decisions that
\* pass validation on their own: the executors make no trader call at all,
\* nothing is left to execute, no action is recorded, the positions are
\* those the account had, and the record is a failure.
C1_NoOrdersWhenDecisionFails ==
    (InCycle /\ DecisionFailed) =>
        /\ \A i \in DOMAIN v_out.calls : v_out.calls[i].op \notin OrderOps
        /\ v_out.calls = <<>>
        /\ v_out.todo = <<>>
        /\ v_out.record.decisions = <<>>
        /\ v_out.record.success = FALSE
        /\ v_out.positions = v_in.exchange
        /\ v_pc = "run_cycle_ended"

\* a rejected batch that holds an open which is valid on its own, whose
\* symbol is a candidate and has no position of that side
C1_Witness ==
    /\ v_pc = "run_cycle_ended" /\ InCycle
    /\ v_in.resp.kind = "batch" /\ DecisionFailed
    /\ \E i \in DOMAIN v_in.resp.decisions :
          LET d == v_in.resp.decisions[i]
          IN  /\ d.action = "open_long"
              /\ d.symbol \in v_in.built.context.candidate_coins
              /\ <<d.symbol, "long">> \notin v_out.positions
              /\ ViolatedRules(d, [account_equity |-> v_in.built.context.account_equity,
                                   btc_eth_leverage |-> config_btc_eth_leverage,
                                   altcoin_leverage |-> config_altcoin_leverage]) = {}

\* a step of the decision loop: one more action record
ExecutionStep ==
    /\ v_pc = "run_cycle_executing" /\ v_out.todo # <<>>
    /\ Len(v_out'.record.decisions) = Len(v_out.record.decisions) + 1

NewCalls == SubSeq(v_out'.calls, Len(v_out.calls) + 1, Len(v_out'.calls))
NewRecord1 == v_out'.record.decisions[Len(v_out'.record.decisions)]
OpenSide(action) == IF action = "open_long" THEN "long" ELSE "short"

\* C2: an open_long (open_short) whose symbol already has a long (short)
\* position on the exchange at the moment the decision is reached, after
\* the decisions before it have been executed, is rejected without any
\* call to open_long (open_short), whatever the context built at the start
\* of the cycle said; the positions are asked for immediately before; and
\* the rejection "already open" is only ever given when such a same-side
\* position exists, so a position of the opposite side does not block the
\* open.
C2_PreOpenGuard ==
    [][ExecutionStep =>
          LET d == Head(v_out.todo)
              held == <<d.symbol, OpenSide(d.action)>> \in v_out.positions
          IN  /\ (d.action \in {"open_long", "open_short"} /\ held) =>
                    /\ \A i \in DOMAIN NewCalls : NewCalls[i].op # d.action
                    /\ NewRecord1.success = FALSE
                    /\ v_out'.positions = v_out.positions
              /\ NewRecord1.error = "already_open" =>
                    /\ d.action \in {"open_long", "open_short"} /\ held
                    /\ NewCalls = <<Call("get_positions", "")>>
              /\ \A i \in DOMAIN NewCalls :
                    NewCalls[i].op = d.action /\ d.action \in {"open_long", "open_short"}
                       => /\ i = 2 /\ NewCalls[1].op = "get_positions"
                          /\ ~held]_vars

\* the second of two opens of one cycle is rejected because of the position
\* the first has just opened, which the context did not hold; and the
\* first open has succeeded next to a position of the opposite side
C2_Witness ==
    /\ v_pc = "run_cycle_ended" /\ Len(v_out.record.decisions) = 2
    /\ v_out.record.decisions[1].action = "open_long"
    /\ v_out.record.decisions[1].success
    /\ v_out.record.decisions[2].action = "open_long"
    /\ v_out.record.decisions[2].error = "already_open"
    /\ <<v_out.record.decisions[2].symbol, "long">> \notin v_in.built.context.positions
    /\ <<v_out.record.decisions[2].symbol, "short">> \in v_in.exchange
    /\ <<v_out.record.decisions[2].symbol, "short">> \in v_out.positions

ClaimPriority(action) ==
    IF action \in {"close_long", "close_short"} THEN 1
    ELSE IF action \in {"open_long", "open_short"} THEN 2
    ELSE IF action \in {"hold", "wait"} THEN 3
    ELSE 4

Key(d) == <<d.action, d.symbol>>
KeysOf(seq) == [i \in DOMAIN seq |-> Key(seq[i])]
Occurrences(seq, x) == Cardinality({i \in DOMAIN seq : seq[i] = x})

\* the batch of the example: an open, a close and a hold, in that order
ExampleBatch ==
    << Decision("BTCUSDT", "open_long", 3, 100, 90, 120),
       Decision("ETHUSDT", "close_short", 0, 0, 0, 0),
       Decision("SOLUSDT", "hold", 0, 0, 0, 0) >>

\* what the call has executed so far followed by what it still has to
ExecutionOrder == KeysOf(v_out.record.decisions) \o KeysOf(v_out.todo)

\* C3: the decisions of an accepted batch are executed in priority order,
\* closes, then opens, then hold/wait, then unknown actions: the execution
\* order is a rearrangement of the batch with non-decreasing priority, so
\* no open has been attempted while a close is still to come; the batch
\* [open_long BTC, close_short ETH, hold SOL] executes as [close_short ETH,
\* open_long BTC, hold SOL]; and the sort puts an unknown action last.
C3_PriorityOrder ==
    /\ (InCycle /\ ~DecisionFailed) =>
          /\ Len(ExecutionOrder) = Len(v_in.resp.decisions)
          /\ \A i \in DOMAIN v_in.resp.decisions :
                Occurrences(ExecutionOrder, Key(v_in.resp.decisions[i]))
                  = Occurrences(KeysOf(v_in.resp.decisions), Key(v_in.resp.decisions[i]))
          /\ \A i, j \in DOMAIN ExecutionOrder :
                i < j => ClaimPriority(ExecutionOrder[i][1]) <= ClaimPriority(ExecutionOrder[j][1])
          /\ \A i \in DOMAIN v_out.record.decisions, j \in DOMAIN v_out.todo :
                ~(ClaimPriority(v_out.record.decisions[i].action) = 2
                  /\ ClaimPriority(v_out.todo[j].action) = 1)
          /\ v_in.resp.decisions = ExampleBatch =>
                ExecutionOrder = << <<"close_short", "ETHUSDT">>,
                                    <<"open_long", "BTCUSDT">>,
                                    <<"hold", "SOLUSDT">> >>
    /\ KeysOf(sort_decisions_by_priority(
                 << Decision("BTCUSDT", "bogus", 0, 0, 0, 0) >> \o ExampleBatch))
         = << <<"close_short", "ETHUSDT">>, <<"open_long", "BTCUSDT">>,
              <<"hold", "SOLUSDT">>, <<"bogus", "BTCUSDT">> >>

\* the example batch has been executed to the end, and the close that the
\* AI named after the open was attempted first
C3_Witness ==
    /\ v_pc = "run_cycle_ended" /\ InCycle /\ v_in.resp.decisions = ExampleBatch
    /\ Len(v_out.record.decisions) = 3
    /\ v_out.record.decisions[1].action = "close_short"
    /\ v_out.record.decisions[2].action = "open_long"
    /\ v_out.record.decisions[2].success

\* C4: an exception raised while one decision executes is recorded in that
\* decision's action record (success false, error set) and stops nothing:
\* every decision of the sorted list is attempted or still to be attempted,
\* the action records are those of the sorted list in order, one each, the
\* position opened by an earlier successful open is still there, and the
\* finished cycle's record holds exactly one action record per decision.
C4_FailureIsolation ==
    (InCycle /\ ~DecisionFailed) =>
        LET sorted == sort_decisions_by_priority(v_in.resp.decisions)
            done == v_out.record.decisions
        IN  /\ Len(done) + Len(v_out.todo) = Len(sorted)
            /\ \A i \in DOMAIN done :
                  /\ Key(done[i]) = Key(sorted[i])
                  /\ done[i].success <=> (done[i].error = "")
                  /\ (done[i].success /\ done[i].action \in {"open_long", "open_short"})
                        => <<done[i].symbol, OpenSide(done[i].action)>> \in v_out.positions
            /\ \A j \in DOMAIN v_out.todo : Key(v_out.todo[j]) = Key(sorted[Len(done) + j])
            /\ v_pc = "run_cycle_ended" =>
                  (v_out.todo = <<>> /\ Len(done) = Len(v_in.resp.decisions)
                   /\ ~v_out.raised)
            /\ v_out.record.success

\* the first decision raised, the second was executed all the same and
\* succeeded with an order
C4_Witness ==
    /\ v_pc = "run_cycle_ended" /\ Len(v_out.record.decisions) = 2
    /\ ~v_out.record.decisions[1].success
    /\ v_out.record.decisions[1].error = "order_failed"
    /\ v_out.record.decisions[2].success
    /\ v_out.record.decisions[2].action = "open_short"
    /\ <<v_out.record.decisions[2].symbol, "short">> \in v_out.positions

\* C5: every _run_cycle invocation appends exactly one record to the
\* decision log, on every path, so that after n cycles the log holds
\* exactly n records.
C5_OneRecordPerCycle ==
    pc \in {"idle", "recorded"} => Len(log) = call_count

\* C10: an open whose symbol is not in the cycle's candidate list fails
\* with its own error before any trader call is made for it, leaves the
\* positions alone, and the rest of the list is still to be executed; and
\* no open order is ever among the cycle's trader calls for a symbol
\* outside the candidate list.
C10_CandidatesOnly ==
    [][/\ ExecutionStep =>
             LET d == Head(v_out.todo)
             IN  (d.action \in {"open_long", "open_short"}
                  /\ d.symbol \notin v_in.built.context.candidate_coins) =>
                     /\ v_out'.calls = v_out.calls
                     /\ v_out'.positions = v_out.positions
                     /\ NewRecord1.success = FALSE
                     /\ NewRecord1.error = "not_candidate"
                     /\ v_out'.todo = Tail(v_out.todo)
       /\ v_pc' \in {"run_cycle_executing", "run_cycle_ended"} =>
             \A i \in DOMAIN v_out'.calls :
                v_out'.calls[i].op \in {"open_long", "open_short"}
                   => v_out'.calls[i].symbol \in v_in'.built.context.candidate_coins]_vars

\* an open for a symbol outside the candidate list was refused and the
\* decision after it was executed and opened its position
C10_Witness ==
    /\ v_pc = "run_cycle_ended" /\ Len(v_out.record.decisions) = 2
    /\ v_out.record.decisions[1].error = "not_candidate"
    /\ v_out.record.decisions[1].symbol \notin v_in.built.context.candidate_coins
    /\ v_out.record.decisions[2].success
    /\ v_out.record.decisions[2].action = "open_long"
    /\ <<v_out.record.decisions[2].symbol, "long">> \in v_out.positions

\* open-interest value in USD: latest OI x current price
OIValue(data) == IF data.has_open_interest THEN data.oi_latest * data.current_price ELSE 0

\* a candidate that is no existing position and whose open-interest value
\* on the exchange is below 15,000,000 USD: a symbol that the liquidity
\* filter is to skip
IlliquidCandidate(s) ==
    /\ s \in v_in.built.context.candidate_coins
    /\ s \notin { p[1] : p \in v_in.built.context.positions }
    /\ OIValue(v_in.answers[s]) < 15000000

C12_InMapIffPositionOrLiquid ==
    v_pc = "fetched" =>
        \A s \in v_in.position_symbols \cup v_in.candidate_symbols :
            v_in.answers[s].fetched =>
                (s \in v_out <=> (s \in v_in.position_symbols
                                   \/ OIValue(v_in.answers[s]) >= 15000000))

\* a step that enters _run_cycle
CycleStart == call_count' = call_count + 1

\* C13: a cycle that starts while the current time is earlier than
\* stop_until records one failed cycle, whose error message gives the
\* remaining pause, and returns: no trader method is called (balance,
\* positions, orders), the AI is not asked, nothing is executed and the
\* positions are untouched.
C13_RiskPauseContactsNobody ==
    [][(CycleStart /\ now < stop_until) =>
          /\ pc' = "recorded"
          /\ record' = [success |-> FALSE, error_message |-> "risk_pause",
                        remaining |-> stop_until - now, decisions |-> <<>>]
          /\ calls' = <<>>
          /\ ai_response' = NoResponse
          /\ ctx' = NoContext
          /\ todo' = <<>>
          /\ positions' = positions
          /\ stats_total_decisions' = stats_total_decisions + 1
          /\ Len(log') <= Len(log) + 1]_vars

\* a paused cycle has ended and its failed record is in the log
C13_Witness ==
    /\ pc = "recorded" /\ now < stop_until /\ call_count = 1
    /\ ~record.success /\ record.remaining = 1
    /\ calls = <<>> /\ ai_response = NoResponse
    /\ log = <<[cycle_number |-> 1, success |-> FALSE]>>

\* the transient-failure signatures: truncated response, timeout,
\* connection reset or refused, temporary failure, DNS failure
TransientSignatures ==
    {"EOF", "timeout", "connection reset", "connection refused",
     "temporary failure", "no such host"}

Transient(outcome) == ~outcome.ok /\ outcome.err \cap TransientSignatures # {}

InCall == v_pc \in {"calling", "returned", "raised"}

\* C14: call_with_messages makes at most 3 attempts; every attempt but the
\* last one made was a retryable failure; it returns the text of the first
\* successful attempt and attempts nothing further; a failure with no
\* retryable signature is re-raised right after that attempt; and the
\* retries-exhausted error is raised after exactly 3 retryable failures.
C14_AtMostThreeAttempts ==
    InCall =>
        LET made == v_out.attempts
            n == Len(made)
        IN  /\ n <= 3
            /\ \A i \in 1..(n - 1) : Transient(made[i])
            /\ v_pc = "calling" => (n < 3 /\ \A i \in 1..n : Transient(made[i]))
            /\ v_pc = "returned" =>
                  (n >= 1 /\ made[n].ok /\ v_out.value = made[n].text)
            /\ (v_pc = "raised" /\ n >= 1) =>
                  /\ ~made[n].ok
                  /\ ~Transient(made[n]) => v_out.error = <<"raised", made[n].err>>
                  /\ Transient(made[n]) =>
                        (n = 3 /\ v_out.error[1] = "retries_exhausted")

\* three retryable failures in a row have ended the call with the
\* retries-exhausted error
C14_Witness ==
    /\ v_pc = "raised" /\ Len(v_out.attempts) = 3
    /\ \A i \in 1..3 : Transient(v_out.attempts[i])
    /\ v_out.error[1] = "retries_exhausted"
    /\ v_out.waits = <<2, 4>>

InFlight(t) == thread_pc[t] \in {"cycle", "ordering"}

\* C15: at any time at most one _run_cycle of the agent is in flight,
\* whatever start_all, stop_all, run and stop calls have been made.
C15_OneCycleInFlight ==
    Cardinality({ t \in Threads : InFlight(t) }) <= 1

\* C16: once stop() has been called and while the flag stays cleared, a
\* thread of the agent that is between two cycles starts no new cycle.
C16_NoCycleAfterStop ==
    [][\A t \in Threads :
          (~is_running /\ thread_pc[t] \in {"after_cycle", "sleeping"})
             => thread_pc'[t] # "cycle"]_vars

\* C17: when the process ends on SIGINT/SIGTERM no agent thread is left in
\* the middle of an order sequence (its open order placed, the stop-loss
\* and take-profit not yet).
C17_NoOrderSequenceAbandoned ==
    main_pc = "exited" => \A t \in Threads : thread_pc[t] # "ordering"

\* C18: a failed cycle never ends the agent loop: while the agent is
\* running (the flag set, the process up), a thread whose cycle has failed
\* that has not left its loop on a stop eventually starts another cycle.
C18_LoopSurvivesFailedCycle ==
    \A t \in Threads :
        (/\ last_cycle[t] = "failed"
         /\ thread_pc[t] \notin {"cycle", "ordering", "returned"}
         /\ is_running /\ ProcessUp)
            ~> (thread_pc[t] = "cycle" \/ ~is_running \/ ~ProcessUp)

\* a thread is in a new cycle after one that failed, the agent still running
C18_Witness ==
    \E t \in Threads :
        /\ last_cycle[t] = "failed" /\ thread_pc[t] = "cycle"
        /\ is_running /\ ProcessUp

\* C19: every AI request an agent has sent carries the provider, base URL,
\* key and model of that agent's own configuration, whatever other agents
\* have been constructed.
OwnRequest(a) == ai_request(init_ai(default_config_initial, v_in[a]))

C19_RequestUsesOwnConfiguration ==
    v_pc = "agents" =>
        \A a \in Agents :
            v_out.request[a] # NoRequest => v_out.request[a] = OwnRequest(a)


InOpen == v_pc \in {"open_cancel", "open_leverage", "open_margin", "open_order",
                    "open_returned", "open_raised"}

OrderAt(i) == v_out.events[i].api = "futures_create_order"

AlreadySo(outcome) ==
    outcome = Returned
    \/ (outcome.exc = "BinanceAPIException" /\ "No need to change" \in outcome.message)

\* C20: in open_long/open_short the market order is sent only after the
\* cancellation of the symbol's orders was attempted (a failure of it is
\* logged and the open goes on), set_leverage returned and the ISOLATED
\* request returned or said "No need to change"; when set_leverage or the
\* ISOLATED request fails otherwise the open raises and no order is sent.
C20_OrderOnlyAfterPreparation ==
    InOpen =>
        /\ \A i \in 1..Len(v_out.events) :
              OrderAt(i) =>
                  /\ i = 6
                  /\ v_out.events[1].api = "futures_cancel_all_orders"
                  /\ \/ v_out.events[3].api = "set_leverage_skipped"
                     \/ /\ v_out.events[3].api = "futures_change_leverage"
                        /\ AlreadySo(v_out.events[3].outcome)
                  /\ v_out.events[4].api = "futures_change_margin_type"
                  /\ AlreadySo(v_out.events[4].outcome)
        /\ (Len(v_out.events) >= 1 /\ v_out.events[1].outcome # Returned)
              => (/\ Len(v_out.warnings) >= 1
                  /\ v_out.warnings[1] = "cancel_all_orders failed"
                  /\ v_pc # "open_cancel"
                  /\ v_out.result # <<"raised", "cancel_all_orders">>)
        /\ \A i \in 1..Len(v_out.events) :
              (/\ v_out.events[i].api \in {"futures_change_leverage",
                                           "futures_change_margin_type"}
               /\ ~AlreadySo(v_out.events[i].outcome))
                  => /\ v_pc = "open_raised"
                     /\ Len(v_out.events) = i

\* an order sent although the cancellation had failed and the margin mode
\* was already ISOLATED
C20_Witness ==
    /\ v_pc = "open_returned"
    /\ v_out.events[1].outcome = Disconnected
    /\ v_out.events[3].api = "futures_change_leverage"
    /\ v_out.events[4].outcome = APIError({"No need to change"})
    /\ v_out.events[6].api = "futures_create_order"


ExecutedOpen == v_pc = "executed" /\ v_in.decision.action \in {"open_long", "open_short"}

ExecutedClose == v_pc = "executed" /\ v_in.decision.action \in {"close_long", "close_short"}

OrderPlaced == \E i \in 1..Len(v_out.calls) : v_out.calls[i].op = v_in.decision.action

CallOps == [i \in 1..Len(v_out.calls) |-> v_out.calls[i].op]

\* C21: after a successful open order set_stop_loss and then
\* set_take_profit are attempted; a failure of either is only logged:
\* both are attempted, no closing order is sent, last_enter_time is
\* updated and the decision is recorded as successful.
C21_ProtectiveFailuresOnlyLogged ==
    (ExecutedOpen /\ OrderPlaced /\ v_in.world.order_ok) =>
        /\ CallOps = <<"get_positions", v_in.decision.action,
                       "set_stop_loss", "set_take_profit">>
        /\ v_out.timestamps.last_enter_time = ExecuteTime
        /\ action_record(v_in.decision, v_out).success
        /\ Len(v_out.warnings) = (IF v_in.world.stop_loss_ok THEN 0 ELSE 1)
                                 + (IF v_in.world.take_profit_ok THEN 0 ELSE 1)

\* an open whose stop-loss placement failed
C21_Witness ==
    /\ ExecutedOpen /\ OrderPlaced /\ v_in.world.order_ok
    /\ ~v_in.world.stop_loss_ok /\ v_in.world.take_profit_ok
    /\ v_out.error = ""

ClosedPosition == matching_positions(v_in.decision,
                                     IF v_in.decision.action = "close_long"
                                     THEN "long" ELSE "short", v_in.world)

\* PnL% of the closed position below -1 / above +1, in exact arithmetic
PnlBelowMinus1(pos, side) ==
    IF side = "long" THEN (pos.mark_price - pos.entry_price) * 100 < -pos.entry_price
    ELSE (pos.entry_price - pos.mark_price) * 100 < -pos.entry_price

PnlAbove1(pos, side) ==
    IF side = "long" THEN (pos.mark_price - pos.entry_price) * 100 > pos.entry_price
    ELSE (pos.entry_price - pos.mark_price) * 100 > pos.entry_price

\* C22: a successful open sets last_enter_time; a successful close sets
\* last_stop_time when the closed position's PnL% is below -1,
\* last_take_profit_time when it is above +1 and neither when it lies in
\* [-1, +1]; a failed open or close leaves the three timestamps unchanged.
C22_TimestampsFollowOutcome ==
    v_pc = "executed" =>
        LET before == v_in.timestamps
            after == v_out.timestamps
            side == IF v_in.decision.action \in {"open_long", "close_long"}
                    THEN "long" ELSE "short"
        IN  /\ v_out.error # "" =>
                  /\ after.last_enter_time = before.last_enter_time
                  /\ after.last_stop_time = before.last_stop_time
                  /\ after.last_take_profit_time = before.last_take_profit_time
            /\ (ExecutedOpen /\ v_out.error = "") =>
                  /\ after.last_enter_time = ExecuteTime
                  /\ after.last_stop_time = before.last_stop_time
                  /\ after.last_take_profit_time = before.last_take_profit_time
            /\ (ExecutedClose /\ v_out.error = "") =>
                  /\ after.last_enter_time = before.last_enter_time
                  /\ \A pos \in ClosedPosition :
                        /\ after.last_stop_time =
                              IF PnlBelowMinus1(pos, side) THEN ExecuteTime
                              ELSE before.last_stop_time
                        /\ after.last_take_profit_time =
                              IF PnlAbove1(pos, side) THEN ExecuteTime
                              ELSE before.last_take_profit_time

\* a short closed at exactly -1%: neither timestamp moves
C22_Witness ==
    /\ ExecutedClose /\ v_out.error = ""
    /\ v_in.decision.action = "close_short"
    /\ \E pos \in ClosedPosition : pos.entry_price = 100 /\ pos.mark_price = 101
    /\ v_in.timestamps.last_stop_time = 4
    /\ v_out.timestamps = v_in.timestamps


\* C23: _build_trading_context fails only if get_balance or get_positions
\* fails: whenever both calls succeed it returns a TradingContext.
C23_ContextBuiltWhenAdapterAnswers ==
    (v_pc = "built" /\ v_in.balance_ok /\ v_in.positions_ok) => v_out.error = ""


\* C24: prompt construction has no failure mode: both builders return a
\* prompt for every TradingContext, including total_equity = 0, no
\* positions and an empty market-data map.
C24_PromptsAlwaysBuilt ==
    v_pc = "prompted" =>
        /\ v_out.system # "none"
        /\ v_out.user.error = ""


Prompted == v_pc = "prompted" /\ v_out.user.error = ""

\* minutes since a timestamp of the prompt's context
MinutesSince(ts) == PromptTime - ts

EnterCooling == v_in.ctx.last_enter_time # 0 /\ MinutesSince(v_in.ctx.last_enter_time) < 9
StopCooling == v_in.ctx.last_stop_time # 0 /\ MinutesSince(v_in.ctx.last_stop_time) < 6
TakeProfitCooling ==
    v_in.ctx.last_take_profit_time # 0 /\ MinutesSince(v_in.ctx.last_take_profit_time) < 3

\* C30: cooldown_status in the user prompt is "cooling" if and only if
\* fewer than 9 minutes passed since last_enter_time, or fewer than 6 since
\* last_stop_time, or fewer than 3 since last_take_profit_time; otherwise
\* it is "ok" (an entry 8 minutes ago alone gives cooling, 10 minutes ago
\* gives ok).
C30_CoolingIffAnyCooldownActive ==
    Prompted =>
        /\ v_out.user.cooldown_status \in {"cooling", "ok"}
        /\ v_out.user.cooldown_status = "cooling"
              <=> (EnterCooling \/ StopCooling \/ TakeProfitCooling)
        /\ (/\ v_in.ctx.last_stop_time = 0 /\ v_in.ctx.last_take_profit_time = 0
            /\ v_in.ctx.last_enter_time = PromptTime - 8)
              => v_out.user.cooldown_status = "cooling"
        /\ (/\ v_in.ctx.last_stop_time = 0 /\ v_in.ctx.last_take_profit_time = 0
            /\ v_in.ctx.last_enter_time = PromptTime - 10)
              => v_out.user.cooldown_status = "ok"

\* only the stop cooldown is active: the entry is 10 minutes old, the stop
\* 5, the take-profit 3
C30_Witness ==
    /\ Prompted
    /\ v_in.ctx.last_enter_time = PromptTime - 10
    /\ v_in.ctx.last_stop_time = PromptTime - 5
    /\ v_in.ctx.last_take_profit_time = PromptTime - 3
    /\ v_out.user.cooldown_status = "cooling"


Parsed == v_pc = "parsed"

ResponseText == text_of(v_in.chunks)

ProseChunks == {"word", "blank"}

\* the decisions that the array a response ends with stands for
ZeroDecision ==
    [symbol |-> "", action |-> "", leverage |-> 0, position_size_usd |-> 0,
     stop_loss |-> 0, take_profit |-> 0, confidence |-> 0, risk_usd |-> 0,
     reasoning |-> <<>>]

DecisionsOfArray(name) ==
    LET full == [symbol |-> "BTCUSDT", action |-> "open_long", leverage |-> 5,
                 position_size_usd |-> 100, stop_loss |-> 90, take_profit |-> 130,
                 confidence |-> 80, risk_usd |-> 10, reasoning |-> <<"t">>]
        partial == [ZeroDecision EXCEPT !.symbol = "ETHUSDT", !.action = "hold"]
        with_string(content) ==
            [ZeroDecision EXCEPT !.symbol = "SOLUSDT", !.action = "wait",
                                 !.reasoning = content]
    IN  CASE name = "array0" -> <<>>
          [] name = "array1" -> <<full>>
          [] name = "array2" -> <<full, partial>>
          [] name = "array_close_in_string" -> <<with_string(<<"]", "t">>)>>
          [] name = "array_open_in_string" -> <<with_string(<<"[">>)>>
          [] name = "array_quote_in_string" -> <<with_string(<<"q">>)>>

ArrayChunks == {"array0", "array1", "array2", "array_close_in_string",
                "array_open_in_string", "array_quote_in_string"}

LastChunk == v_in.chunks[Len(v_in.chunks)]

\* C27: when the reasoning text contains a bracketed literal such as
\* [note] before the real decision array, the parser selects the array
\* that parses as JSON and returns that array's decisions.
C27_BracketedNoteSkipped ==
    (/\ Parsed /\ Len(v_in.chunks) >= 2
     /\ LastChunk \in {"array1", "array2"}
     /\ \A i \in 1..(Len(v_in.chunks) - 1) : v_in.chunks[i] \in ProseChunks \cup {"note"}
     /\ \E i \in 1..(Len(v_in.chunks) - 1) : v_in.chunks[i] = "note")
        => (v_out.error = "" /\ v_out.decisions = DecisionsOfArray(LastChunk))

\* the positions (from 1) of "[" in the response
BracketPositions == { i \in 1..Len(ResponseText) : ResponseText[i] = "[" }

\* C28: the extracted reasoning trace is the text preceding the first "["
\* (trimmed), wherever that "[" stands, position 0 included, and the whole
\* text (trimmed) when there is no "[".
C28_TraceIsTextBeforeFirstBracket ==
    Parsed =>
        v_out.cot_trace =
            IF BracketPositions = {} THEN strip(ResponseText)
            ELSE LET first == CHOOSE i \in BracketPositions :
                                  \A j \in BracketPositions : i <= j
                 IN  strip(SubSeq(ResponseText, 1, first - 1))

\* C29: for free text followed by a well-formed JSON array of objects the
\* parser returns one Decision per element, in order, every absent field
\* at its zero value, and never fails; a response with no "[" or with no
\* matching "]" fails as malformed.
C29_OneDecisionPerElement ==
    Parsed =>
        /\ (/\ Len(v_in.chunks) >= 1
            /\ LastChunk \in ArrayChunks
            /\ \A i \in 1..(Len(v_in.chunks) - 1) : v_in.chunks[i] \in ProseChunks)
              => (v_out.error = "" /\ v_out.decisions = DecisionsOfArray(LastChunk))
        /\ BracketPositions = {} => v_out.error = "no_array_start"
        /\ (\A i \in 1..Len(v_in.chunks) : v_in.chunks[i] \in ProseChunks \cup {"open"})
              => v_out.error # ""


Recorded == v_pc = "run_cycle_ended"

\* the stage at which the call that has just been recorded stopped
StoppedAtRiskPause == v_in.now < v_in.stop_until
StoppedAtContext == ~StoppedAtRiskPause /\ v_in.built.error # ""
StoppedAtDecision == ~StoppedAtRiskPause /\ v_in.built.error = "" /\ DecisionFailed
ReachedExecution == ~StoppedAtRiskPause /\ v_in.built.error = "" /\ ~DecisionFailed

\* C26: the record's success flag is false exactly when the cycle stopped
\* at a fatal stage (risk pause, context build, AI/parse/validate), the
\* error message naming the stage; a cycle that reaches execution is
\* recorded with success = true even if some or all decisions fail, the
\* failures appearing in the per-decision action records only.
C26_SuccessFalseIffFatalStage ==
    /\ Recorded =>
          /\ StoppedAtRiskPause =>
                (~v_out.record.success /\ v_out.record.error_message = "risk_pause")
          /\ StoppedAtContext =>
                (~v_out.record.success /\ v_out.record.error_message = "build_context")
          /\ StoppedAtDecision =>
                (~v_out.record.success
                 /\ v_out.record.error_message = "get_full_decision")
          /\ ReachedExecution =>
                /\ v_out.record.success /\ v_out.record.error_message = ""
                /\ Len(v_out.record.decisions) = Len(v_in.resp.decisions)
          /\ v_out.record.success <=> ReachedExecution
          /\ ~ReachedExecution => v_out.record.decisions = <<>>
          /\ v_in.write_ok =>
                v_out.lines = <<[cycle_number |-> 1, success |-> v_out.record.success]>>
    /\ v_pc = "run_cycle_executing" => v_out.record.success

\* a recorded cycle that reached execution with two decisions, both of
\* which failed
C26_Witness ==
    /\ Recorded /\ ReachedExecution
    /\ Len(v_out.record.decisions) = 2
    /\ \A i \in DOMAIN v_out.record.decisions : ~v_out.record.decisions[i].success
    /\ v_out.record.success /\ v_in.write_ok


DecisionRecorded == v_pc = "decision_recorded"

\* the response was received and its decision array could not be
\* extracted / was extracted and rejected by the validation
ParseFailed == v_in.call_ok /\ extract_decisions(text_of(v_in.chunks)).error # ""

ValidationRejected ==
    /\ v_in.call_ok /\ extract_decisions(text_of(v_in.chunks)).error = ""
    /\ \E i \in DOMAIN extract_decisions(text_of(v_in.chunks)).decisions :
          ViolatedRules(extract_decisions(text_of(v_in.chunks)).decisions[i],
                        [account_equity |-> v_in.account_equity,
                         btc_eth_leverage |-> config_btc_eth_leverage,
                         altcoin_leverage |-> config_altcoin_leverage]) # {}

\* the trace of the response is in the record, as its cot_trace or inside
\* its error message
CarriesTrace ==
    \/ v_out.cot_trace = extract_cot_trace(text_of(v_in.chunks))
    \/ v_out.error_message.cause.cot_trace = extract_cot_trace(text_of(v_in.chunks))

\* C25: when the AI response fails to parse or validation rejects the
\* batch, the record of the cycle has success = false and carries the
\* reasoning trace extracted from the response and, for a validation
\* failure, the parsed-but-rejected decisions.
C25_FailureRecordKeepsTraceAndDecisions ==
    DecisionRecorded =>
        /\ (ParseFailed \/ ValidationRejected) => (~v_out.success /\ CarriesTrace)
        /\ ValidationRejected =>
              v_out.decision_json = extract_decisions(text_of(v_in.chunks)).decisions

\* the sort has been applied
Sorted == v_pc \in {"sorted", "resorted"}

\* the decisions of a list that have priority p, in the order of the list
TiedAt(seq, p) == SelectSeq(seq, LAMBDA d : ClaimPriority(d.action) = p)

\* C31: _sort_decisions_by_priority returns a permutation of its input
\* (same length, every decision as often as in the input) that is stable
\* (the decisions of one priority stand in their input order) and
\* idempotent (the sorted list sorted again is the sorted list).
C31_SortIsStablePermutation ==
    /\ Sorted =>
          /\ Len(v_out.sorted) = Len(v_in)
          /\ \A i \in DOMAIN v_in :
                Occurrences(v_out.sorted, v_in[i]) = Occurrences(v_in, v_in[i])
          /\ \A p \in {1, 2, 3, 4} : TiedAt(v_out.sorted, p) = TiedAt(v_in, p)
    /\ v_pc = "resorted" => v_out.resorted = v_out.sorted

\* two open_long entries followed by a close: the close has moved to the
\* front, the two opens have kept their order, and the list was sorted again
C31_Witness ==
    /\ v_pc = "resorted"
    /\ KeysOf(v_in) = << <<"open_long", "SOLUSDT">>, <<"open_long", "BTCUSDT">>,
                         <<"close_long", "SOLUSDT">> >>
    /\ KeysOf(v_out.sorted) = << <<"close_long", "SOLUSDT">>, <<"open_long", "SOLUSDT">>,
                                 <<"open_long", "BTCUSDT">> >>

Traded1 == v_pc = "traded"

\* the requests of the call that place an order
OrderRequests ==
    { i \in 1..Len(v_out.trade.requests) :
        v_out.trade.requests[i].api \in {"order", "futures_create_order"} }

TradeReturned == v_out.trade.result[1] = "returned"

\* C32: open_long, open_short, close_long and close_short return a result
\* only if the exchange accepted the order, and raise whenever the
\* exchange's response to the order reports an error or a rejection.
C32_NoOrderErrorSwallowed ==
    (Traded1 /\ v_in.method \in {"open_long", "open_short", "close_long", "close_short"}) =>
        /\ TradeReturned =>
              \E i \in OrderRequests : v_out.trade.requests[i].outcome = Returned
        /\ (\E i \in OrderRequests : v_out.trade.requests[i].outcome # Returned)
              => ~TradeReturned

ClosedByAdapter == Traded1 /\ v_in.method \in {"close_long", "close_short"}

OrderAccepted == \E i \in OrderRequests : v_out.trade.requests[i].outcome = Returned

\* the requests that belong to the cancellation of the symbol's orders:
\* the one futures_cancel_all_orders of Binance; on Hyperliquid the query
\* of the open orders and the cancels that follow it
CancelRequests ==
    { i \in 1..Len(v_out.trade.requests) :
        v_out.trade.requests[i].api \in {"futures_cancel_all_orders", "open_orders", "cancel"} }

CancelAllStarts ==
    { i \in CancelRequests : v_out.trade.requests[i].api # "cancel" }

RestingOf(symbol, resting) ==
    { i \in 1..Len(resting) : resting[i].coin = convert_symbol_to_hyperliquid(symbol) }

\* C34: after a closing order that the exchange accepted, the adapter asks
\* once for the cancellation of all orders of the symbol, after the order
\* and never twice for the same order; the close returns its result
\* whether or not the cancellation fails; and when every request of the
\* cancellation succeeded no order of the symbol rests any more, the
\* orders of other symbols being left alone.
C34_CancelAllOnceAfterClose ==
    (ClosedByAdapter /\ OrderAccepted) =>
        /\ Cardinality(CancelAllStarts) = 1
        /\ \A i \in CancelRequests, j \in OrderRequests : j < i
        /\ \A i \in CancelRequests :
              /\ v_out.trade.requests[i].api = "futures_cancel_all_orders"
                    => v_out.trade.requests[i].symbol = v_in.symbol
              /\ v_out.trade.requests[i].api = "cancel"
                    => /\ v_out.trade.requests[i].symbol = v_in.symbol
                       /\ \A k \in CancelRequests \ {i} :
                             v_out.trade.requests[k].arg # v_out.trade.requests[i].arg
        /\ TradeReturned
        /\ (\A i \in CancelRequests : v_out.trade.requests[i].outcome = Returned)
              => /\ RestingOf(v_in.symbol, v_out.trade.resting) = {}
                 /\ v_out.trade.resting =
                       SelectSeq(v_in.world.resting,
                                 LAMBDA o : o.coin # convert_symbol_to_hyperliquid(v_in.symbol))
        /\ (\E i \in CancelRequests : v_out.trade.requests[i].outcome.exc # "none")
              => \E k \in 1..Len(v_out.trade.warnings) :
                    v_out.trade.warnings[k] = "cancel_all_orders failed"

\* a short closed on Hyperliquid while an order of another symbol and one of
\* the symbol rest: the open orders are asked for, the second is cancelled
\* and the first stays
C34_Witness ==
    /\ ClosedByAdapter /\ OrderAccepted /\ TradeReturned
    /\ v_in.adapter = "hyperliquid" /\ v_in.method = "close_short"
    /\ Len(v_in.world.resting) = 2 /\ RestingOf(v_in.symbol, v_in.world.resting) = {2}
    /\ Cardinality(CancelRequests) = 2
    /\ \A i \in CancelRequests : v_out.trade.requests[i].outcome = Returned
    /\ Len(v_out.trade.resting) = 1

\* the positions of the exchange that are the symbol's on the side the
\* method closes
LivePositions ==
    { p \in v_in.world.positions :
        /\ p.symbol = v_in.symbol
        /\ IF v_in.method = "close_long" THEN p.szi > 0 ELSE p.szi < 0 }

Size(p) == IF p.szi > 0 THEN p.szi ELSE -p.szi

\* C35: close_long and close_short called with quantity 0 send their order
\* for the size of the live position of the symbol and side; when there is
\* none they raise not-found without an order or a cancel request, and the
\* executor that called them leaves the decision failed and the three
\* timestamps as they were.
C35_ZeroQuantityClosesLivePosition ==
    (ClosedByAdapter /\ v_in.quantity = 0 /\ v_in.world.positions_ok) =>
        /\ \A i \in OrderRequests : \E p \in LivePositions :
              v_out.trade.requests[i].arg[3] = Size(p)
        /\ (/\ LivePositions # {}
            /\ v_in.adapter = "hyperliquid" => v_in.world.price_ok
            /\ v_in.adapter = "binance" => v_in.world.position_side_defined)
              => OrderRequests # {}
        /\ LivePositions = {} =>
              /\ v_out.trade.result = <<"raised", "not_found">>
              /\ OrderRequests = {} /\ CancelRequests = {}
              /\ v_out.trade.resting = v_in.world.resting
              /\ v_out.executed.error # ""
              /\ v_out.executed.timestamps = v_in.timestamps

\* close_long on Hyperliquid while the symbol has only a short: not found,
\* nothing but the position query was sent, the decision failed
C35_Witness ==
    /\ ClosedByAdapter /\ v_in.quantity = 0 /\ v_in.world.positions_ok
    /\ v_in.adapter = "hyperliquid" /\ v_in.method = "close_long"
    /\ \E p \in v_in.world.positions : p.symbol = v_in.symbol /\ p.szi < 0
    /\ LivePositions = {}
    /\ v_out.trade.result = <<"raised", "not_found">>
    /\ Len(v_out.trade.requests) = 1
    /\ v_out.executed.error = "order_failed"
    /\ v_out.executed.timestamps.last_stop_time = 4

\* C36: in an open sequence, when the leverage the symbol has on the
\* exchange is already the requested one, no leverage-change request is
\* sent.
C36_NoLeverageRequestAtTarget ==
    (/\ Traded1 /\ v_in.method \in {"open_long", "open_short"}
     /\ v_in.world.current_leverage = v_in.leverage)
        => \A i \in 1..Len(v_out.trade.requests) :
              v_out.trade.requests[i].api # "update_leverage"

\* C37: the client sleeps 2*k seconds after the retryable failure of
\* attempt k when an attempt k+1 follows, and at no other moment: not
\* before the first attempt, not after the third attempt, not after an
\* answer and not after a failure that is not retryable.
C37_LinearBackoff ==
    InCall =>
        LET made == v_out.attempts
            n == Len(made)
            followed == { k \in 1..n : k < n \/ v_pc = "calling" }
        IN  /\ Len(v_out.waits) = Cardinality(followed)
            /\ \A k \in 1..Len(v_out.waits) : v_out.waits[k] = 2 * k
            /\ \A k \in followed : Transient(made[k]) /\ k < 3
            /\ (v_pc \in {"returned", "raised"} /\ n >= 1) => Len(v_out.waits) = n - 1
            /\ n = 0 => v_out.waits = <<>>

\* two retryable failures and then an answer: 2 s and 4 s were waited
C37_Witness ==
    /\ v_pc = "returned" /\ Len(v_out.attempts) = 3
    /\ Transient(v_out.attempts[1]) /\ Transient(v_out.attempts[2])
    /\ v_out.attempts[3].ok
    /\ v_out.waits = <<2, 4>>

\* the cycles that got as far as a TradingContext
ContextBuilt(c) == c.stage \in {"decision_failed", "executed"}

\* C33: a timestamp that the executors set in a cycle is the one the next
\* cycle's context carries, and a timestamp that is set is never put back
\* to an older or an empty value by a later cycle, whatever the stage that
\* cycle ends at.
C33_CooldownStateSurvives ==
    v_pc = "cooldown_cycles" =>
        \A n \in 1..Len(v_out.cycles) :
            LET c == v_out.cycles[n]
            IN  /\ (n > 1 /\ ContextBuilt(c)) =>
                      \A f \in v_out.cycles[n - 1].set :
                          c.context[f] = v_out.cycles[n - 1].after[f]
                /\ \A f \in DOMAIN NoTimestamps :
                      c.before[f] # 0 => c.after[f] >= c.before[f]

\* the cycles whose builder went through the tracking and the purge, as
\* every build that returns a context has
Observed(n) == v_out.cycles[n].stage = "context_failed"

\* the observing cycle before cycle n (0: none)
ObservedBefore(n) ==
    IF \E m \in 1..(n - 1) : Observed(m)
    THEN CHOOSE m \in 1..(n - 1) : Observed(m) /\ \A j \in (m + 1)..(n - 1) : ~Observed(j)
    ELSE 0

\* the (symbol, side) pairs of the positions that cycle n was given
KeysReported(n) ==
    { <<v_out.cycles[n].reported[i].symbol, v_out.cycles[n].reported[i].side>> :
        i \in DOMAIN v_out.cycles[n].reported }

\* C38: after every context build that went through the tracking and the
\* purge, and so after every successful one, the tracked keys are the
\* (symbol, side) pairs of the positions reported; a position reported to
\* two such builds in a row keeps its first-seen time; one that is no
\* longer reported has lost its key, and one that is reported again
\* afterwards gets a new time, later than the build that missed it.  No
\* cycle rewrites the time of a key that stays tracked.
C38_FirstSeenFollowsOpenPositions ==
    v_pc = "first_seen_cycles" =>
        \A n \in 1..Len(v_out.cycles) :
            LET c == v_out.cycles[n]
                before == IF n = 1 THEN <<>> ELSE v_out.cycles[n - 1].after
                m == ObservedBefore(n)
                earlier == IF m = 0 THEN <<>> ELSE v_out.cycles[m].after
                since == IF m = 0 THEN 0 ELSE v_out.cycles[m].t
            IN  /\ Observed(n) =>
                      /\ DOMAIN c.after = KeysReported(n)
                      /\ \A k \in KeysReported(n) :
                            IF k \in DOMAIN earlier
                            THEN c.after[k] = earlier[k]
                            ELSE c.after[k] > since /\ c.after[k] <= c.t
                /\ \A k \in DOMAIN before \cap DOMAIN c.after : c.after[k] = before[k]

\* a long seen by two builds in a row keeps the time of the first; the
\* third build sees no position and the long's key is gone; the fourth
\* sees a long again and tracks it from its own time
C38_Witness ==
    /\ v_pc = "first_seen_cycles" /\ Len(v_out.cycles) = 4
    /\ \A n \in 1..4 : Observed(n)
    /\ KeysReported(1) = {<<v_in.symbol, "long">>}
    /\ KeysReported(2) = {<<v_in.symbol, "long">>}
    /\ v_out.cycles[2].after[<<v_in.symbol, "long">>] = 100
    /\ KeysReported(3) = {}
    /\ v_out.cycles[3].after = <<>>
    /\ KeysReported(4) = {<<v_in.symbol, "long">>}
    /\ v_out.first_seen[<<v_in.symbol, "long">>] = 130

\* the arrays of the bounded set whose string value holds a bracket
BracketInString == {"array_close_in_string", "array_open_in_string"}

\* C39: for a response that is prose followed by a decision array with a
\* string value that contains "[" or "]", the bracket found for the first
\* "[" is the last character of the array, and the array's decisions are
\* returned.
C39_BracketInStringKeepsArrayWhole ==
    (/\ Parsed /\ Len(v_in.chunks) >= 1 /\ LastChunk \in BracketInString
     /\ \A i \in 1..(Len(v_in.chunks) - 1) : v_in.chunks[i] \in ProseChunks)
        => /\ find_matching_bracket(ResponseText, find(ResponseText, "["))
                 = Len(ResponseText) - 1
           /\ v_out.error = ""
           /\ v_out.decisions = DecisionsOfArray(LastChunk)

====
